---- MODULE Spec2Model ----
(***************************************************************************)
(* Model of the local language-model adapter of MyFace SnapJournal         *)
(* (src/src-tauri/src/ai_service.rs): AIService with its two backends,     *)
(* Ollama over HTTP and llama.cpp as a child process, and of the host      *)
(* that keeps it (src/src-tauri/src/main.rs): AppState with its three      *)
(* locked slots, startup initialization and the commands that use them.    *)
(*                                                                         *)
(* Two sorts of text are used.  Text that the code only passes on or       *)
(* concatenates (request messages, contexts, prompts, model names, error   *)
(* messages) is a TLA+ string, composed with \o as format! composes it.    *)
(* Text that the code inspects character by character (a backend's reply:  *)
(* trim, split, lines, starts_with, parse) is a sequence of one-character  *)
(* strings, so that those functions are computed and not assumed.          *)
(*                                                                         *)
(* The strength of a pattern is counted in hundredths: 80 stands for 0.8.  *)
(* A mood trend is the f64 value / 100.0 of a parsed f64 value and is kept *)
(* as that value, a record naming the decimal number the f64 is nearest    *)
(* to: the record of 50 stands for 50.0 / 100.0, which is the f64 0.5.     *)
(*                                                                         *)
(* A u64 is the triple <<top, mid, low>> of its bits 63..40, 39..16 and    *)
(* 15..0.  An f32 that a u64 converts to is [m, e] for m * 2^e with        *)
(* m <= 2^24.  The components of an embedding are f32 values counted in    *)
(* units of 2^-24: 2^24 stands for 1.0 and -(2^24) for -1.0.               *)
(***************************************************************************)
EXTENDS Integers, Sequences, FiniteSets, Bags, TLC

VARIABLES
    service,    \* the AIService built by AIService::new
    call,       \* the adapter operation in flight, or Idle
    http,       \* Option: the HTTP request the call in flight has sent
    child,      \* Option: the child process the call in flight has spawned
    reply,      \* Option: what the backend answered to the call that returned
    result,     \* Option: the Result the last call returned
    earlier,    \* Option: the reply and the Result of the call before, when
                \* the call in flight repeats it (a history variable)
    hasher,     \* the u64 that DefaultHasher gives for each text, in the
                \* build of the standard library the program is linked with
    orphans,    \* the bag of the commands of the child processes still
                \* running whose call was dropped
    database,       \* AppState.database: Option of the database opened
    ai_service,     \* AppState.ai_service: Option of the AIService stored
    database_path,  \* AppState.database_path: Option of the path stored
    ai_guard,       \* Option: the task that holds the ai_service mutex
    tasks           \* the startup task and the command invocations of the
                    \* host, each with its command and its position

\* the state of the host (main.rs)
host == <<database, ai_service, database_path, ai_guard, tasks>>

vars == <<service, call, http, child, reply, result, earlier, hasher, orphans,
          host>>

----------------------------------------------------------------------------
(* Option and Result *)

None == [some |-> FALSE]
Some(x) == [some |-> TRUE, val |-> x]

Ok(v) == [ok |-> TRUE, val |-> v]
Err(e) == [ok |-> FALSE, err |-> e]

unwrap_or_else(opt, default) == IF opt.some THEN opt.val ELSE default

\* before the first call
Idle == [op |-> "idle", pc |-> "done"]

----------------------------------------------------------------------------
(* Bounds and the inputs drawn within them *)

\* most lines in a backend reply
MaxLines == 3
\* most entry bodies handed to analyze_echo_patterns
MaxEntries == 4

ModelTypes == {"ollama", "llama.cpp", "openai"}
ModelPaths == {"/usr/local/bin/runner"}
\* std::env::var("OLLAMA_URL"): unset, or set
EnvOllamaUrl == {None, Some("http://10.0.0.2:11434")}

Messages == {"Hello", "Why?"}
Contexts == {None, Some("I was late today")}
RequestModels == {None, Some("mistral")}
EntryBodies == {"Woke early."}
StderrTexts == {"", "error: model not found"}

ChatRequests ==
    [message : Messages, context : Contexts, model : RequestModels]

----------------------------------------------------------------------------
(* AIService::new *)

Ollama == [kind |-> "ollama"]
LlamaCpp(path) == [kind |-> "llama.cpp", path |-> path]

\* New that falls back to Ollama for a tag it does not know
New_OllamaByDefault(model_type, model_path, env_url) ==
    Ok([model |-> IF model_type = "llama.cpp" THEN LlamaCpp(model_path)
                  ELSE Ollama,
        embedding_model |-> "nomic-embed-text",
        chat_model |-> "llama3.2",
        ollama_url |-> unwrap_or_else(env_url, "http://localhost:11434")])

New(model_type, model_path, env_url) ==
    IF model_type \notin {"ollama", "llama.cpp"}
    THEN Err("Unsupported AI model type: " \o model_type)
    ELSE Ok([model |-> IF model_type = "ollama" THEN Ollama
                       ELSE LlamaCpp(model_path),
             embedding_model |-> "nomic-embed-text",
             chat_model |-> "llama3.2",
             ollama_url |-> unwrap_or_else(env_url, "http://localhost:11434")])

----------------------------------------------------------------------------
(* Prompt composition *)

\* generate_ollama_chat: the system prompt.  A backslash at the end of a
\* line of the Rust literal drops the line break and the indentation that
\* follows it, and keeps the blank before it.
system_prompt(context) ==
    IF context.some
    THEN "You are a helpful AI introspection companion for MyFace SnapJournal. "
         \o "You help users reflect on their journal entries and social media posts. "
         \o "Use the following context about the user's entries:\n\n"
         \o context.val
         \o "\n\n "
         \o "Be empathetic, insightful, and encouraging. Help them discover patterns and insights in their writing."
    ELSE "You are a helpful AI introspection companion for MyFace SnapJournal. "
         \o "You help users reflect on their journal entries and social media posts. "
         \o "Be empathetic, insightful, and encouraging."

\* ChatRequestBody with the request's model ignored
ChatRequestBody_DefaultModelOnly(svc, request) ==
    [url  |-> svc.ollama_url \o "/api/chat",
     body |-> [model    |-> svc.chat_model,
               messages |-> << [role |-> "system",
                                content |-> system_prompt(request.context)],
                               [role |-> "user",
                                content |-> request.message] >>,
               stream   |-> FALSE]]

\* generate_ollama_chat: the request put on the wire
ChatRequestBody(svc, request) ==
    [url  |-> svc.ollama_url \o "/api/chat",
     body |-> [model    |-> unwrap_or_else(request.model, svc.chat_model),
               messages |-> << [role |-> "system",
                                content |-> system_prompt(request.context)],
                               [role |-> "user",
                                content |-> request.message] >>,
               stream   |-> FALSE]]

\* generate_llamacpp_chat: the prompt
llamacpp_prompt(request) ==
    IF request.context.some
    THEN "Context: " \o request.context.val \o "\n\nUser: " \o request.message
         \o "\n\nAssistant:"
    ELSE "User: " \o request.message \o "\n\nAssistant:"

\* LlamaCppCommand with the request's model passed on as "-m"
LlamaCppCommand_WithModel(path, request) ==
    [program |-> path,
     args    |-> IF request.model.some
                 THEN <<"-m", request.model.val,
                        "-p", llamacpp_prompt(request), "-n", "256">>
                 ELSE <<"-p", llamacpp_prompt(request), "-n", "256">>]

\* generate_llamacpp_chat: the command spawned
LlamaCppCommand(path, request) ==
    [program |-> path,
     args    |-> <<"-p", llamacpp_prompt(request), "-n", "256">>]

----------------------------------------------------------------------------
(* The str functions the code applies to a backend's reply, over sequences *)
(* of one-character strings                                                *)

\* char::is_whitespace (White_Space of Unicode): U+0009 to U+000D, the
\* space, U+0085, U+00A0 and U+1680, written here as the characters
\* themselves; the other characters of the class (U+2000 to U+200A, U+2028,
\* U+2029, U+202F, U+205F, U+3000) cannot be written in a string of the
\* module, and no text of the model holds one
White == {"\t", "\n", "", "\f", "\r", " ", "", " ", " "}

Digits == {"0", "1", "2", "3", "4", "5", "6", "7", "8", "9"}

DigitValue(c) ==
    CASE c = "0" -> 0 [] c = "1" -> 1 [] c = "2" -> 2 [] c = "3" -> 3
      [] c = "4" -> 4 [] c = "5" -> 5 [] c = "6" -> 6 [] c = "7" -> 7
      [] c = "8" -> 8 [] c = "9" -> 9

\* pat occurs in s at index i
MatchesAt(s, pat, i) ==
    /\ i + Len(pat) - 1 <= Len(s)
    /\ \A k \in 1..Len(pat) : s[i + k - 1] = pat[k]

\* str::starts_with
starts_with(s, pat) == MatchesAt(s, pat, 1)

\* str::contains(char)
contains(s, c) == \E i \in 1..Len(s) : s[i] = c

\* index of the first occurrence of pat in s at or after i, 0 when none
RECURSIVE find_from(_, _, _)
find_from(s, pat, i) ==
    IF i + Len(pat) - 1 > Len(s) THEN 0
    ELSE IF MatchesAt(s, pat, i) THEN i
    ELSE find_from(s, pat, i + 1)

\* str::split(&str): the pieces between the non-overlapping occurrences of
\* pat, found left to right; always at least one piece
RECURSIVE split_from(_, _, _)
split_from(s, pat, i) ==
    LET j == find_from(s, pat, i) IN
    IF j = 0 THEN << SubSeq(s, i, Len(s)) >>
    ELSE << SubSeq(s, i, j - 1) >> \o split_from(s, pat, j + Len(pat))

split(s, pat) == split_from(s, pat, 1)

\* Iterator::nth (0-based) and Iterator::next on the pieces
nth(pieces, n) == IF n + 1 <= Len(pieces) THEN Some(pieces[n + 1]) ELSE None
next(pieces) == nth(pieces, 0)

\* str::lines: split at "\n", no empty last line, and a "\r" before the
\* "\n" belongs to the line ending
lines(s) ==
    LET parts == split(s, <<"\n">>)
        kept  == IF parts[Len(parts)] = <<>>
                 THEN SubSeq(parts, 1, Len(parts) - 1) ELSE parts
        strip(l, terminated) ==
            IF terminated /\ Len(l) > 0 /\ l[Len(l)] = "\r"
            THEN SubSeq(l, 1, Len(l) - 1) ELSE l
    IN  [k \in 1..Len(kept) |-> strip(kept[k], k < Len(parts))]

\* str::trim
trim(s) ==
    LET solid == {i \in 1..Len(s) : s[i] \notin White} IN
    IF solid = {} THEN <<>>
    ELSE SubSeq(s, CHOOSE i \in solid : \A j \in solid : i <= j,
                   CHOOSE i \in solid : \A j \in solid : i >= j)

\* str::splitn(2, ':')
splitn2(s, c) ==
    LET j == find_from(s, <<c>>, 1) IN
    IF j = 0 THEN << s >>
    ELSE << SubSeq(s, 1, j - 1), SubSeq(s, j + 1, Len(s)) >>

\* str::replace(c, ""): every occurrence of c is removed
replace_with_empty(s, c) == SelectSeq(s, LAMBDA x : x # c)

RECURSIVE digits_value(_)
digits_value(ds) ==
    IF ds = <<>> THEN 0
    ELSE 10 * digits_value(SubSeq(ds, 1, Len(ds) - 1))
         + DigitValue(ds[Len(ds)])

\* an f64 that a text names: the f64 nearest to m * 10^e with the sign neg,
\* where m is no multiple of 10 (m and e are 0 for zero), an infinity, or
\* a NaN
Finite(neg, m, e) == [class |-> "finite", neg |-> neg, m |-> m, e |-> e]
Infinite(neg) == [class |-> "inf", neg |-> neg, m |-> 0, e |-> 0]

\* the number of decimal digits of m > 0
RECURSIVE digit_count(_)
digit_count(m) == IF m < 10 THEN 1 ELSE 1 + digit_count(m \div 10)

\* the f64 for m * 10^e, 0 <= m < 2^31: for m no multiple of 10, an
\* infinity from 2^1024 - 2^970 = 1.797693134862315807...e308 on, zero up
\* to 2^-1075 = 2.4703282292062327...e-324, and else the nearest f64 (of
\* which, under the least normal f64, several texts name the same)
RECURSIVE decimal(_, _, _)
decimal(neg, m, e) ==
    LET n == digit_count(m)
        k == e + n
        lead == IF n <= 9 THEN m * 10^(9 - n) ELSE m \div 10
    IN  IF m = 0 THEN Finite(neg, 0, 0)
        ELSE IF m % 10 = 0 THEN decimal(neg, m \div 10, e + 1)
        ELSE IF k > 309 THEN Infinite(neg)
        ELSE IF k = 309 /\ (lead > 179769313 \/ m >= 1797693135)
        THEN Infinite(neg)
        ELSE IF k < -323 THEN Finite(neg, 0, 0)
        ELSE IF k = -323 /\ lead <= 247032822
        THEN Finite(neg, 0, 0)
        ELSE Finite(neg, m, e)

\* the number of digits s has from index i on
RECURSIVE digits_run(_, _)
digits_run(s, i) ==
    IF i <= Len(s) /\ s[i] \in Digits THEN 1 + digits_run(s, i + 1) ELSE 0

\* parse_number of dec2flt: digits with at most one ".", at least one
\* digit in all, then an exponent or the end: "e" or "E", an optional sign
\* and one or more digits
parse_number(neg, s) ==
    LET int_len   == digits_run(s, 1)
        has_dot   == int_len < Len(s) /\ s[int_len + 1] = "."
        frac_len  == IF has_dot THEN digits_run(s, int_len + 2) ELSE 0
        mant_end  == IF has_dot THEN int_len + 1 + frac_len ELSE int_len
        has_exp   == mant_end < Len(s) /\ s[mant_end + 1] \in {"e", "E"}
        exp_sign  == has_exp /\ mant_end + 1 < Len(s)
                             /\ s[mant_end + 2] \in {"+", "-"}
        exp_from  == IF exp_sign THEN mant_end + 3 ELSE mant_end + 2
        exp_len   == IF has_exp THEN digits_run(s, exp_from) ELSE 0
        exponent  == IF exp_sign /\ s[mant_end + 2] = "-"
                     THEN 0 - digits_value(SubSeq(s, exp_from, Len(s)))
                     ELSE digits_value(SubSeq(s, exp_from, Len(s)))
        mantissa  == digits_value(SubSeq(s, 1, int_len)
                                  \o SubSeq(s, int_len + 2,
                                            int_len + 1 + frac_len))
    IN  IF int_len + frac_len = 0 THEN Err("invalid float literal")
        ELSE IF ~has_exp
        THEN IF mant_end = Len(s) THEN Ok(decimal(neg, mantissa, 0 - frac_len))
             ELSE Err("invalid float literal")
        ELSE IF exp_len > 0 /\ exp_from + exp_len - 1 = Len(s)
        THEN Ok(decimal(neg, mantissa, exponent - frac_len))
        ELSE Err("invalid float literal")

\* str::parse::<f64> (dec2flt), for texts whose digits and whose exponent
\* stay under 2^31: an optional sign, then a number, or without regard to
\* case "inf", "infinity" or "nan"
parse_f64(s) ==
    LET signed == Len(s) > 0 /\ s[1] \in {"+", "-"}
        neg    == signed /\ s[1] = "-"
        rest   == IF signed THEN Tail(s) ELSE s
        to_ascii_lowercase(c) ==
            CASE c = "I" -> "i" [] c = "N" -> "n" [] c = "F" -> "f"
              [] c = "T" -> "t" [] c = "Y" -> "y" [] c = "A" -> "a"
              [] OTHER -> c
        lower  == [i \in 1..Len(rest) |-> to_ascii_lowercase(rest[i])]
    IN  IF s = <<>> THEN Err("cannot parse float from empty string")
        ELSE IF rest = <<>> THEN Err("invalid float literal")
        ELSE IF parse_number(neg, rest).ok THEN parse_number(neg, rest)
        ELSE IF lower = <<"n", "a", "n">>
        THEN Ok([class |-> "nan", neg |-> neg, m |-> 0, e |-> 0])
        ELSE IF lower \in { <<"i", "n", "f">>,
                            <<"i", "n", "f", "i", "n", "i", "t", "y">> }
        THEN Ok(Infinite(neg))
        ELSE Err("invalid float literal")

\* line[2..]
from2(line) == SubSeq(line, 3, Len(line))

----------------------------------------------------------------------------
(* analyze_echo_patterns: the prompt and the parse of the reply *)

RECURSIVE join(_, _)
join(strs, sep) ==
    IF strs = <<>> THEN ""
    ELSE IF Len(strs) = 1 THEN strs[1]
    ELSE strs[1] \o sep \o join(Tail(strs), sep)

analysis_prompt(entry_contents) ==
    "Analyze the following journal entries and identify patterns, themes, and insights. "
    \o "Look for recurring topics, emotions, daily rhythms, and personal growth patterns.\n\n"
    \o "Journal Entries:\n" \o join(entry_contents, "\n\n---\n\n") \o "\n\n"
    \o "Provide your analysis in this format:\n"
    \o "PATTERNS:\n- [pattern name]: [description]\n"
    \o "INSIGHTS:\n- [insight]\n"
    \o "MOODS:\n- [mood]: [percentage]"

analysis_request(svc, entry_contents) ==
    [message |-> analysis_prompt(entry_contents),
     context |-> None,
     model   |-> Some(svc.chat_model)]

\* the three labels, "PATTERNS:", "INSIGHTS:" and "MOODS:"
PATTERNS == <<"P", "A", "T", "T", "E", "R", "N", "S", ":">>
INSIGHTS == <<"I", "N", "S", "I", "G", "H", "T", "S", ":">>
MOODS == <<"M", "O", "O", "D", "S", ":">>

\* "- "
DashBlank == <<"-", " ">>

\* the line passes the tests of the pattern loop
is_pattern_line(line) ==
    /\ contains(line, ":")
    /\ starts_with(line, DashBlank)
    /\ Len(splitn2(from2(line), ":")) = 2

\* the (title, description) of every pattern pushed, in order
parsed_patterns(analysis_text) ==
    LET patterns_section == nth(split(analysis_text, PATTERNS), 1) IN
    IF ~patterns_section.some THEN <<>>
    ELSE LET insights_section == next(split(patterns_section.val, INSIGHTS))
             kept == SelectSeq(lines(insights_section.val), is_pattern_line)
         IN  [k \in 1..Len(kept) |->
                 LET parts == splitn2(from2(kept[k]), ":") IN
                 [title |-> trim(parts[1]), description |-> trim(parts[2])]]

\* the line passes the test of the insight loop
is_insight_line(line) == starts_with(line, DashBlank)

\* the insights pushed, in order
parsed_insights(analysis_text) ==
    LET insights_section == nth(split(analysis_text, INSIGHTS), 1) IN
    IF ~insights_section.some THEN <<>>
    ELSE LET moods_section == next(split(insights_section.val, MOODS))
             kept == SelectSeq(lines(moods_section.val), is_insight_line)
         IN  [k \in 1..Len(kept) |-> trim(from2(kept[k]))]

\* HashMap::insert
insert(map, key, value) ==
    [k \in DOMAIN map \cup {key} |-> IF k = key THEN value ELSE map[k]]

EmptyMap == [k \in {} |-> 0]

\* the inserts of the mood loop, line after line
RECURSIVE mood_inserts(_, _)
mood_inserts(map, ls) ==
    IF ls = <<>> THEN map
    ELSE LET line == Head(ls) IN
         IF starts_with(line, DashBlank) /\ contains(line, ":")
         THEN LET parts == splitn2(from2(line), ":")
                  value == IF Len(parts) = 2
                           THEN parse_f64(replace_with_empty(trim(parts[2]), "%"))
                           ELSE Err("no value")
              IN  IF value.ok
                  THEN mood_inserts(insert(map, trim(parts[1]), value.val),
                                    Tail(ls))
                  ELSE mood_inserts(map, Tail(ls))
         ELSE mood_inserts(map, Tail(ls))

parsed_moods(analysis_text) ==
    LET moods_section == nth(split(analysis_text, MOODS), 1) IN
    IF ~moods_section.some THEN EmptyMap
    ELSE mood_inserts(EmptyMap, lines(moods_section.val))

\* custom_pattern with the pattern's own id pushed into entry_ids
custom_pattern_IdInEntryIds(id, parsed) ==
    [id |-> id, title |-> parsed.title, description |-> parsed.description,
     strength |-> 80, entry_ids |-> <<id>>, tags |-> <<>>,
     pattern_type |-> "custom"]

\* a parsed pattern, with the id uuid::Uuid::new_v4 gave it
custom_pattern(id, parsed) ==
    [id |-> id, title |-> parsed.title, description |-> parsed.description,
     strength |-> 80, entry_ids |-> <<>>, tags |-> <<>>,
     pattern_type |-> "custom"]

\* the pattern pushed when none was parsed
regular_journaling(id) ==
    [id |-> id,
     title |-> <<"R", "e", "g", "u", "l", "a", "r", " ", "J", "o", "u",
              "r", "n", "a", "l", "i", "n", "g">>,
     description |-> <<"Y", "o", "u", " ", "m", "a", "i", "n", "t", "a", "i",
              "n", " ", "a", " ", "c", "o", "n", "s", "i", "s", "t",
              "e", "n", "t", " ", "j", "o", "u", "r", "n", "a", "l",
              "i", "n", "g", " ", "h", "a", "b", "i", "t">>,
     strength |-> 70, entry_ids |-> <<>>, tags |-> <<"consistency">>,
     pattern_type |-> "habit"]

\* the mood_trends of the Err arm: neutral 0.5, positive 0.3, negative 0.2
FallbackMoods ==
    insert(insert(insert(EmptyMap, <<"n", "e", "u", "t", "r", "a", "l">>,
                         decimal(FALSE, 50, 0)),
                  <<"p", "o", "s", "i", "t", "i", "v", "e">>,
                  decimal(FALSE, 30, 0)),
           <<"n", "e", "g", "a", "t", "i", "v", "e">>, decimal(FALSE, 20, 0))

\* echo_analysis with the "Regular Journaling" fallback placed after the
\* match, so that it also runs when the chat call failed
echo_analysis_FallbackAfterMatch(entry_contents, chat, ids) ==
    LET parsed   == IF chat.ok THEN parsed_patterns(chat.val.response)
                    ELSE <<>>
        patterns == [k \in 1..Len(parsed) |->
                        custom_pattern(ids[k], parsed[k])]
    IN  Ok([patterns |-> IF patterns = <<>> /\ Len(entry_contents) > 3
                         THEN << regular_journaling(ids[1]) >>
                         ELSE patterns,
            insights |-> IF chat.ok THEN parsed_insights(chat.val.response)
                         ELSE <<>>,
            mood_trends |-> IF chat.ok THEN parsed_moods(chat.val.response)
                            ELSE FallbackMoods])

\* echo_analysis with the fallback already at three entries
echo_analysis_AtLeastThree(entry_contents, chat, ids) ==
    IF chat.ok
    THEN LET parsed   == parsed_patterns(chat.val.response)
             patterns == [k \in 1..Len(parsed) |->
                             custom_pattern(ids[k], parsed[k])]
         IN  Ok([patterns |-> IF patterns = <<>> /\ Len(entry_contents) >= 3
                              THEN << regular_journaling(ids[1]) >>
                              ELSE patterns,
                 insights |-> parsed_insights(chat.val.response),
                 mood_trends |-> parsed_moods(chat.val.response)])
    ELSE Ok([patterns |-> <<>>, insights |-> <<>>,
             mood_trends |-> FallbackMoods])

\* analyze_echo_patterns from the match on the chat result to the return;
\* ids[k] is the value the k-th call of uuid::Uuid::new_v4 returns
echo_analysis(entry_contents, chat, ids) ==
    IF chat.ok
    THEN LET parsed   == parsed_patterns(chat.val.response)
             patterns == [k \in 1..Len(parsed) |->
                             custom_pattern(ids[k], parsed[k])]
         IN  Ok([patterns |-> IF patterns = <<>> /\ Len(entry_contents) > 3
                              THEN << regular_journaling(ids[1]) >>
                              ELSE patterns,
                 insights |-> parsed_insights(chat.val.response),
                 mood_trends |-> parsed_moods(chat.val.response)])
    ELSE Ok([patterns |-> <<>>, insights |-> <<>>,
             mood_trends |-> FallbackMoods])

\* analyze_echo_patterns, the early return for no entries
EmptyAnalysis == [patterns |-> <<>>, insights |-> <<>>, mood_trends |-> EmptyMap]

----------------------------------------------------------------------------
(* JSON values and serde's deserialization of the chat response body *)

JNull == [t |-> "null"]
JBool(b) == [t |-> "bool", b |-> b]
JNum(n) == [t |-> "num", n |-> n]
JStr(s) == [t |-> "str", s |-> s]
JArr(elems) == [t |-> "arr", a |-> elems]
JObj(fields) == [t |-> "obj", o |-> fields]

\* String
de_String(j) == IF j.t = "str" THEN Ok(j.s) ELSE Err("invalid type")

\* bool
de_bool(j) == IF j.t = "bool" THEN Ok(j.b) ELSE Err("invalid type")

\* struct Message { role: String, content: String }, as serde derives it:
\* from a map with both fields (other fields ignored), or from a sequence
\* of exactly the two field values
de_Message(j) ==
    CASE j.t = "obj" ->
            IF /\ "role" \in DOMAIN j.o /\ de_String(j.o.role).ok
               /\ "content" \in DOMAIN j.o /\ de_String(j.o.content).ok
            THEN Ok([role |-> j.o.role.s, content |-> j.o.content.s])
            ELSE Err("missing field or invalid type")
      [] j.t = "arr" ->
            IF Len(j.a) = 2 /\ de_String(j.a[1]).ok /\ de_String(j.a[2]).ok
            THEN Ok([role |-> j.a[1].s, content |-> j.a[2].s])
            ELSE Err("invalid length or type")
      [] OTHER -> Err("invalid type")

\* struct ChatResponseBody { message: Message, #[serde(default)] done: bool }
de_ChatResponseBody(j) ==
    CASE j.t = "obj" ->
            IF /\ "message" \in DOMAIN j.o /\ de_Message(j.o.message).ok
               /\ ("done" \in DOMAIN j.o => de_bool(j.o.done).ok)
            THEN Ok([message |-> de_Message(j.o.message).val,
                     done |-> IF "done" \in DOMAIN j.o THEN j.o.done.b
                              ELSE FALSE])
            ELSE Err("missing field or invalid type")
      [] j.t = "arr" ->
            IF /\ Len(j.a) \in {1, 2} /\ de_Message(j.a[1]).ok
               /\ (Len(j.a) = 2 => de_bool(j.a[2]).ok)
            THEN Ok([message |-> de_Message(j.a[1]).val,
                     done |-> IF Len(j.a) = 2 THEN j.a[2].b ELSE FALSE])
            ELSE Err("invalid length or type")
      [] OTHER -> Err("invalid type")

----------------------------------------------------------------------------
(* mock_embedding: u64 and f32 arithmetic *)

U64(top, mid, low) == <<top, mid, low>>

\* u64::MAX
U64Max == U64(2^24 - 1, 2^24 - 1, 2^16 - 1)

\* u64::wrapping_add of a u64 and a loop index
wrapping_add(hash, i) ==
    LET low == hash[3] + i
        mid == hash[2] + (low \div 2^16)
        top == hash[1] + (mid \div 2^24)
    IN  U64(top % 2^24, mid % 2^24, low % 2^16)

\* the number of bits of n < 2^24
bit_length(n) == CHOOSE b \in 0..24 : n < 2^b /\ (b = 0 \/ n >= 2^(b - 1))

\* the quotient q of a division whose remainder compares as cmp (-1, 0, 1)
\* with half the divisor, rounded to nearest, ties to even
round_ties_even(q, cmp) ==
    IF cmp > 0 \/ (cmp = 0 /\ q % 2 = 1) THEN q + 1 ELSE q

compare(a, b) == IF a > b THEN 1 ELSE IF a < b THEN -1 ELSE 0

\* `seed as f32`: the nearest f32, ties to even
as_f32(seed) ==
    LET top == seed[1]
        mid == seed[2]
        low == seed[3]
    IN  IF top > 0
        THEN LET b   == bit_length(top)
                 cmp == IF mid % 2^b # 2^(b - 1)
                        THEN compare(mid % 2^b, 2^(b - 1))
                        ELSE compare(low, 0)
             IN  [m |-> round_ties_even(top * 2^(24 - b) + (mid \div 2^b), cmp),
                  e |-> b + 16]
        ELSE IF bit_length(mid) > 8
        THEN LET s == bit_length(mid) - 8 IN
             [m |-> round_ties_even(mid * 2^(16 - s) + (low \div 2^s),
                                    compare(low % 2^s, 2^(s - 1))),
              e |-> s]
        ELSE [m |-> mid * 2^16 + low, e |-> 0]

\* (seed as f32 / max as f32) * 2.0 - 1.0 for a max that converts to a
\* power of two 2^(e + 24), in units of 2^-24: the quotient and its double
\* are exact, the difference is rounded to the nearest f32, ties to even
normalized(seed, max) ==
    LET a     == as_f32(seed)
        shift == a.e - (as_f32(max).e + 24) + 25
    IN  IF shift >= 0 THEN a.m * 2^shift - 2^24
        ELSE IF shift < -24 THEN 0 - 2^24
        ELSE round_ties_even(a.m \div 2^(0 - shift),
                             compare(a.m % 2^(0 - shift), 2^(0 - shift - 1)))
             - 2^24

\* the length of the vector
Dimensions == 384

\* the texts embeddings are asked for
EmbedTexts == {"", "Woke early."}

EmbeddingRequests ==
    { [text |-> t, model |-> m] : t \in EmbedTexts, m \in RequestModels }

\* DefaultHasher::new(), text.hash(), finish() as the standard library
\* computes it today: SipHash-1-3 with the keys 0, 0 of the bytes of the
\* text followed by the byte 0xff
SipHash13 ==
    [t \in EmbedTexts |->
        IF t = "" THEN U64(3162222, 10822597, 15855)         \* 0x30406ea523c53def
        ELSE U64(12125067, 8824962, 65235)]                 \* 0xb9038b86a882fed3

\* the algorithm of DefaultHasher is not specified and may change from
\* one release to the next: together with today's values, hashes whose
\* seeds wrap around u64::MAX, and hashes whose seeds are 0 and cross 2^62
Hashers ==
    { SipHash13,
      [t \in EmbedTexts |->
          IF t = "" THEN U64Max ELSE U64(2^24 - 1, 2^24 - 1, 2^16 - 200)],
      [t \in EmbedTexts |->
          IF t = "" THEN U64(0, 0, 0)
          ELSE U64(2^22 - 1, 2^24 - 1, 2^16 - 100)] }

\* mock_embedding normalised by i64::MAX
mock_embedding_I64Max(self, text) ==
    [k \in 1..Dimensions |->
        normalized(wrapping_add(hasher[text], k - 1),
                   U64(2^23 - 1, 2^24 - 1, 2^16 - 1))]

\* mock_embedding with self.model hashed before the text: the hash under
\* the llama.cpp model is another u64, here with its top bit flipped
mock_embedding_ModelHashed(self, text) ==
    LET hash == IF self.model.kind = "ollama" THEN hasher[text]
                ELSE U64((hasher[text][1] + 2^23) % 2^24,
                         hasher[text][2], hasher[text][3])
    IN  [k \in 1..Dimensions |->
            normalized(wrapping_add(hash, k - 1), U64Max)]

\* mock_embedding(&self, text): the u64 hash of the text, and for each i in
\* 0..384 the hash plus i scaled into [-1, 1]; self is not read
mock_embedding(self, text) ==
    [k \in 1..Dimensions |->
        normalized(wrapping_add(hasher[text], k - 1), U64Max)]

----------------------------------------------------------------------------
(* What the backends may answer *)

\* short replies, with and without surrounding whitespace
ChatReplyTexts ==
    { <<"H", "i", " ", "t", "h", "e", "r", "e">>,
      <<" ", " ", "o", "k", " ", "\n">>,
      <<>> }

\* the lines analysis replies are made of
ReplyLines ==
    { PATTERNS, INSIGHTS, MOODS,
      <<"-", " ", "a", ":", " ", "b">>,
      <<"-", " ", "m", ":", " ", "7", "0">>,
      <<"-", " ", "m", ":", " ", "1", "2", "0", "%">>,
      <<"-", " ", "m", ":", " ", "-", "5">>,
      <<"-", " ", "x">> }

RECURSIVE join_lines(_)
join_lines(ls) ==
    IF ls = <<>> THEN <<>>
    ELSE IF Len(ls) = 1 THEN ls[1]
    ELSE ls[1] \o <<"\n">> \o join_lines(Tail(ls))

AnalysisTexts ==
    { join_lines(ls) : ls \in UNION { [1..n -> ReplyLines] : n \in 1..MaxLines } }

Assistant == <<"a", "s", "s", "i", "s", "t", "a", "n", "t">>

\* the values found at "message" in a response body carrying content c
MessageValues(c) ==
    { JObj([role |-> JStr(Assistant), content |-> JStr(c)]),
      JObj([content |-> JStr(c)]),
      JObj([role |-> JNull, content |-> JStr(c)]),
      JObj([role |-> JStr(Assistant)]),
      JObj([role |-> JStr(Assistant), content |-> JNum(1)]),
      JStr(c) }

\* response bodies of every shape, carrying content c
ShapedBodies(c) ==
    { [json |-> FALSE], [json |-> TRUE, value |-> JNull],
      [json |-> TRUE, value |-> JObj([done |-> JBool(TRUE)])],
      [json |-> TRUE, value |-> JObj([error |-> JStr(c)])] }
    \cup { [json |-> TRUE, value |-> JObj([message |-> m])]
             : m \in MessageValues(c) }
    \cup { [json |-> TRUE, value |-> JObj([message |-> m, done |-> d])]
             : m \in MessageValues(c), d \in {JBool(TRUE), JStr(c)} }
    \cup { [json |-> TRUE,
            value |-> JObj([message |-> m, done |-> JBool(TRUE),
                            model |-> JStr(c), eval_count |-> JNum(7)])]
             : m \in MessageValues(c) }

\* the body Ollama documents
GoodBody(c) ==
    [json |-> TRUE,
     value |-> JObj([message |-> JObj([role |-> JStr(Assistant),
                                       content |-> JStr(c)]),
                     done |-> JBool(TRUE)])]

\* what the HTTP exchange may come to: the send fails, the body cannot be
\* read, or a response with a status (200, 404, 500) and a body arrives;
\* here with a body of every shape carrying a short reply
ChatHttpResponses ==
    { [transport |-> "send_error"] }
    \cup { [transport |-> "body_error", status |-> 200] }
    \cup { [transport |-> "ok", status |-> st, body |-> b]
             : st \in {200, 404, 500},
               b \in UNION { ShapedBodies(c) : c \in ChatReplyTexts } }

\* the same, and the documented body carrying every analysis reply
AnalysisHttpResponses ==
    ChatHttpResponses
    \cup { [transport |-> "ok", status |-> 200, body |-> GoodBody(c)]
             : c \in AnalysisTexts }

\* the responses drawn for a call of operation op
HttpResponses(op) ==
    IF op = "analyze" THEN AnalysisHttpResponses ELSE ChatHttpResponses

\* ExitStatus: an exit code, or death by a signal
ExitStatuses == { [code |-> Some(0)], [code |-> Some(1)], [code |-> None] }

\* ExitStatus::success
success(status) == status.code = Some(0)

\* what Command::output may come to: the spawn (or the wait) fails, or the
\* child ends with a status, its stdout and its stderr; here every status
\* with a short reply on stdout
ChatProcessOutputs ==
    { [spawned |-> FALSE] }
    \cup { [spawned |-> TRUE, status |-> st, stdout |-> out, stderr |-> e]
             : st \in ExitStatuses, out \in ChatReplyTexts, e \in StderrTexts }

\* the same, and a clean exit with every analysis reply on stdout
AnalysisProcessOutputs ==
    ChatProcessOutputs
    \cup { [spawned |-> TRUE, status |-> [code |-> Some(0)],
            stdout |-> out, stderr |-> ""] : out \in AnalysisTexts }

\* the outputs drawn for a call of operation op
ProcessOutputs(op) ==
    IF op = "analyze" THEN AnalysisProcessOutputs ELSE ChatProcessOutputs

\* the item lines of analysis replies: well formed, with an empty key,
\* indented, with a trailing "%", with a "%" in the middle, a second value
\* for the same mood, with a decimal point, and without ":"
ThemeLines ==
    { <<"-", " ", "a", ":", " ", "b">>,
      <<"-", " ", ":", " ", "b">>,
      <<" ", "-", " ", "a", ":", " ", "b">>,
      <<"-", " ", "m", ":", " ", "7", "0", "%">>,
      <<"-", " ", "m", ":", " ", "7", "%", "0">>,
      <<"-", " ", "m", ":", " ", "3", ".", "5">>,
      <<"-", " ", "x">> }

\* analysis replies of one section: a label and item lines under it
ThemeTexts ==
    { join_lines(<<label>> \o ls) :
        label \in {PATTERNS, INSIGHTS, MOODS},
        ls \in UNION { [1..n -> ThemeLines] : n \in 0..(MaxLines - 1) } }

\* the send fails, or the documented body carries a one-section reply
ThemeHttpResponses ==
    { [transport |-> "send_error"] }
    \cup { [transport |-> "ok", status |-> 200, body |-> GoodBody(c)]
             : c \in ThemeTexts }

\* the spawn fails, or a clean exit with a one-section reply on stdout
ThemeProcessOutputs ==
    { [spawned |-> FALSE] }
    \cup { [spawned |-> TRUE, status |-> [code |-> Some(0)],
            stdout |-> out, stderr |-> ""] : out \in ThemeTexts }

\* what Command::output of `ollama run` may come to, the child printing
\* one of two vectors
EmbedProcessOutputs ==
    { [spawned |-> FALSE] }
    \cup { [spawned |-> TRUE, status |-> st, stdout |-> out, stderr |-> e]
             : st \in ExitStatuses,
               out \in {"[0.12, -0.5]", "[0.7]"},
               e \in StderrTexts }

\* the lines `ollama list` may print: a header, a model line, a model line
\* that begins with whitespace and has a tab, an empty line, a line of
\* whitespace only (a space and a form feed), and a line ending with a
\* carriage return
ListLines ==
    { <<"N", "A", "M", "E", " ", "I", "D">>,
      <<"l", "l", "a", "m", "a", "3", " ", "a", "b">>,
      <<" ", "n", "o", "m", "i", "c", "\t", "d">>,
      <<>>,
      <<" ", "\f">>,
      <<"q", "\r">> }

\* a listing of two models under a header
ListingOfTwo ==
    <<"N", "A", "M", "E", " ", "I", "D", " ", "S", "I", "Z", "E", "\n",
      "l", "l", "a", "m", "a", "3", ".", "2", " ", "a", "b", "c", " ", "4",
      "G", "B", "\n", "n", "o", "m", "i", "c", "-", "e", "m", "b", "e",
      "d", "-", "t", "e", "x", "t", " ", "d", "e", "f", " ", "3", "0", "0",
      "M", "B", "\n">>

\* what `ollama list` may print: up to MaxLines lines, with and without
\* the last newline, and the listing of two models
ListStdouts ==
    { join_lines(ls) \o nl :
        ls \in UNION { [1..n -> ListLines] : n \in 0..MaxLines },
        nl \in {<<>>, <<"\n">>} }
    \cup { ListingOfTwo }

\* what Command::output of `ollama list` may come to
ListProcessOutputs ==
    { [spawned |-> FALSE] }
    \cup { [spawned |-> TRUE, status |-> st, stdout |-> out, stderr |-> e]
             : st \in ExitStatuses, out \in ListStdouts, e \in StderrTexts }

\* uuid::Uuid::new_v4 returns values that differ from one another; of the
\* streams of such values the model draws two, which differ in every
\* position
IdStreams == { [k \in 1..MaxLines |-> first + 2 * (k - 1)] : first \in {1, 2} }

----------------------------------------------------------------------------
(* The two chat drivers, from the resumed await to the return *)

\* generate_ollama_chat after send().await
ollama_chat_result(svc, request, resp) ==
    IF resp.transport = "send_error"
    THEN Err("Failed to send request to Ollama")
    ELSE IF resp.transport = "body_error" \/ ~resp.body.json
    THEN Err("Failed to parse Ollama response")
    ELSE LET chat_response == de_ChatResponseBody(resp.body.value) IN
         IF ~chat_response.ok
         THEN Err("Failed to parse Ollama response")
         ELSE Ok([response    |-> chat_response.val.message.content,
                  model       |-> unwrap_or_else(request.model, svc.chat_model),
                  tokens_used |-> None])

\* llamacpp_chat_result with stdout returned as it is
llamacpp_chat_result_Untrimmed(output) ==
    IF ~output.spawned
    THEN Err("Failed to run llama.cpp chat command")
    ELSE IF ~success(output.status)
    THEN Err("llama.cpp chat failed: " \o output.stderr)
    ELSE Ok([response    |-> output.stdout,
             model       |-> "llama.cpp",
             tokens_used |-> None])

\* generate_llamacpp_chat after output().await
llamacpp_chat_result(output) ==
    IF ~output.spawned
    THEN Err("Failed to run llama.cpp chat command")
    ELSE IF ~success(output.status)
    THEN Err("llama.cpp chat failed: " \o output.stderr)
    ELSE Ok([response    |-> trim(output.stdout),
             model       |-> "llama.cpp",
             tokens_used |-> None])

\* the command generate_ollama_embedding runs
OllamaEmbeddingCommand(model, text) ==
    [program |-> "ollama",
     args    |-> <<"run", model, "Generate embedding for: " \o text>>]

\* ollama_embedding_result without the test of the exit status
ollama_embedding_result_StatusIgnored(svc, request, output) ==
    IF ~output.spawned
    THEN Err("Failed to run Ollama embedding command")
    ELSE Ok([embedding |-> mock_embedding(svc, request.text),
             model     |-> unwrap_or_else(request.model, svc.embedding_model)])

\* generate_ollama_embedding after output().await
ollama_embedding_result(svc, request, output) ==
    IF ~output.spawned
    THEN Err("Failed to run Ollama embedding command")
    ELSE IF ~success(output.status)
    THEN Err("Ollama embedding failed: " \o output.stderr)
    ELSE Ok([embedding |-> mock_embedding(svc, request.text),
             model     |-> unwrap_or_else(request.model, svc.embedding_model)])

\* the text from its first character that is not whitespace
RECURSIVE trim_start(_)
trim_start(s) ==
    IF s # <<>> /\ Head(s) \in White THEN trim_start(Tail(s)) ELSE s

\* the characters of the text before its first whitespace
RECURSIVE word(_)
word(s) ==
    IF s = <<>> \/ Head(s) \in White THEN <<>>
    ELSE <<Head(s)>> \o word(Tail(s))

\* str::split_whitespace().next()
split_whitespace_next(line) ==
    IF trim_start(line) = <<>> THEN None ELSE Some(word(trim_start(line)))

\* Iterator::skip(1)
skip1(items) == IF items = <<>> THEN <<>> ELSE Tail(items)

is_some(opt) == opt.some

\* the models of a listing: lines().skip(1).filter_map(first word)
listed_models(output_str) ==
    LET rest  == skip1(lines(output_str))
        found == SelectSeq([k \in 1..Len(rest) |->
                               split_whitespace_next(rest[k])], is_some)
    IN  [k \in 1..Len(found) |-> found[k].val]

\* ollama_list_result with the header line taken for a model
ollama_list_result_HeaderKept(output) ==
    IF ~output.spawned
    THEN Err("Failed to list Ollama models")
    ELSE IF ~success(output.status)
    THEN Ok(<<>>)
    ELSE LET rest  == lines(output.stdout)
             found == SelectSeq([k \in 1..Len(rest) |->
                                    split_whitespace_next(rest[k])], is_some)
         IN  Ok([k \in 1..Len(found) |-> found[k].val])

\* ollama_list_result with an error for a command that ended without
\* success
ollama_list_result_ErrOnFailure(output) ==
    IF ~output.spawned
    THEN Err("Failed to list Ollama models")
    ELSE IF ~success(output.status)
    THEN Err("Failed to list Ollama models")
    ELSE Ok(listed_models(output.stdout))

\* list_models on Ollama after output().await
ollama_list_result(output) ==
    IF ~output.spawned
    THEN Err("Failed to list Ollama models")
    ELSE IF ~success(output.status)
    THEN Ok(<<>>)
    ELSE Ok(listed_models(output.stdout))

\* the list of the LlamaCpp arm: "llama2:7b", "codellama:7b"
LlamaCppModels ==
    << <<"l", "l", "a", "m", "a", "2", ":", "7", "b">>,
       <<"c", "o", "d", "e", "l", "l", "a", "m", "a", ":", "7", "b">> >>

----------------------------------------------------------------------------
(* The state machine *)

\* the number of command invocations of the host that may be in progress
\* together
MaxCommands == 2

\* the task that setup spawns for initialize_services
Startup == 0

\* the invocations of commands
Commands == 1..MaxCommands

\* main: the AppState that Builder::manage is given, the startup task
\* spawned and no command invoked
Managed ==
    /\ database = None
    /\ ai_service = None
    /\ database_path = None
    /\ ai_guard = None
    /\ tasks = [t \in {Startup} \cup Commands |->
                  IF t = Startup
                  THEN [cmd |-> "initialize_services", pc |-> "start"]
                  ELSE [cmd |-> "none", pc |-> "idle"]]

EntryLists == UNION { [1..n -> EntryBodies] : n \in 0..MaxEntries }

Init ==
    /\ \E t \in ModelTypes, p \in ModelPaths, e \in EnvOllamaUrl :
          /\ New(t, p, e).ok
          /\ t = "llama.cpp" => e = None
          /\ service = New(t, p, e).val
    /\ call = Idle
    /\ http = None
    /\ child = None
    /\ reply = None
    /\ result = None
    /\ earlier = None
    /\ hasher = SipHash13
    /\ orphans = EmptyBag
    /\ Managed

\* no call is suspended at an await
Ready == call.pc = "done"

\* generate_chat: the match on the backend, up to the await of the driver
dispatch_chat(request) ==
    IF service.model.kind = "ollama"
    THEN /\ http' = Some(ChatRequestBody(service, request))
         /\ child' = None
    ELSE /\ child' = Some(LlamaCppCommand(service.model.path, request))
         /\ http' = None

\* generate_chat is called
GenerateChat(request) ==
    /\ Ready
    /\ call' = [op |-> "chat", request |-> request, pc |-> "await"]
    /\ dispatch_chat(request)
    /\ reply' = None
    /\ result' = None
    /\ earlier' = None
    /\ UNCHANGED <<service, hasher, orphans, host>>

\* AnalyzeEchoPatterns without the early return for no entries
AnalyzeEchoPatterns_NoEarlyReturn(entry_contents) ==
    /\ Ready
    /\ reply' = None
    /\ earlier' = None
    /\ UNCHANGED <<service, hasher, orphans, host>>
    /\ call' = [op |-> "analyze", entry_contents |-> entry_contents,
                request |-> analysis_request(service, entry_contents),
                pc |-> "await"]
    /\ dispatch_chat(analysis_request(service, entry_contents))
    /\ result' = None

\* analyze_echo_patterns is called: it returns at once for no entries and
\* calls generate_chat otherwise
AnalyzeEchoPatterns(entry_contents) ==
    /\ Ready
    /\ reply' = None
    /\ earlier' = None
    /\ UNCHANGED <<service, hasher, orphans, host>>
    /\ IF entry_contents = <<>>
       THEN /\ call' = [op |-> "analyze", entry_contents |-> entry_contents,
                        pc |-> "done"]
            /\ http' = None
            /\ child' = None
            /\ result' = Some(Ok(EmptyAnalysis))
       ELSE /\ call' = [op |-> "analyze", entry_contents |-> entry_contents,
                        request |-> analysis_request(service, entry_contents),
                        pc |-> "await"]
            /\ dispatch_chat(analysis_request(service, entry_contents))
            /\ result' = None

\* the call resumes with the chat result: generate_chat returns it,
\* analyze_echo_patterns matches on it and returns the analysis
resume(chat) ==
    /\ IF call.op = "chat"
       THEN result' = Some(chat)
       ELSE \E ids \in IdStreams :
               result' = Some(echo_analysis(call.entry_contents, chat, ids))
    /\ call' = [call EXCEPT !.pc = "done"]
    /\ UNCHANGED <<service, http, child, earlier, hasher, orphans, host>>

\* what the backend answers to the call in flight: one of answers, or, to
\* a call that repeats the one before with the backend's answer held
\* constant, the answer it gave then
Drawn(answers) == IF earlier.some THEN {earlier.val.reply.val} ELSE answers

\* what send().await has come to when it did not fail: the response with
\* its status, whose body is not read yet
received(resp) == [transport |-> "received", status |-> resp.status]

\* generate_ollama_chat: send().await returns; with an error the call
\* returns it, and with a response the call goes on to await its body
OllamaChatResponds ==
    /\ call.pc = "await"
    /\ call.op \in {"chat", "analyze"}
    /\ http.some
    /\ \E resp \in Drawn(HttpResponses(call.op)) :
          IF resp.transport = "send_error"
          THEN /\ reply' = Some(resp)
               /\ resume(ollama_chat_result(service, call.request, resp))
          ELSE /\ reply' = Some(received(resp))
               /\ call' = [call EXCEPT !.pc = "json"]
               /\ UNCHANGED <<service, http, child, result, earlier, hasher,
                              orphans, host>>

\* generate_ollama_chat: response.json().await returns
OllamaChatReturns ==
    /\ call.pc = "json"
    /\ call.op \in {"chat", "analyze"}
    /\ http.some
    /\ \E resp \in Drawn(HttpResponses(call.op)) :
          /\ resp.transport # "send_error"
          /\ received(resp) = reply.val
          /\ reply' = Some(resp)
          /\ resume(ollama_chat_result(service, call.request, resp))

\* the child of generate_llamacpp_chat ends
LlamaCppChatReturns ==
    /\ ~Ready
    /\ call.op \in {"chat", "analyze"}
    /\ child.some
    /\ \E output \in Drawn(ProcessOutputs(call.op)) :
          /\ reply' = Some(output)
          /\ resume(llamacpp_chat_result(output))

\* analyze_echo_patterns is called again with the entries of the call that
\* has returned, whose reply and Result are kept for comparison
RepeatAnalysis ==
    /\ Ready
    /\ call.op = "analyze"
    /\ ~earlier.some
    /\ earlier' = Some([reply |-> reply, result |-> result])
    /\ reply' = None
    /\ UNCHANGED <<service, hasher, orphans, host>>
    /\ IF call.entry_contents = <<>>
       THEN /\ call' = [op |-> "analyze",
                        entry_contents |-> call.entry_contents,
                        pc |-> "done"]
            /\ http' = None
            /\ child' = None
            /\ result' = Some(Ok(EmptyAnalysis))
       ELSE /\ call' = [op |-> "analyze",
                        entry_contents |-> call.entry_contents,
                        request |-> analysis_request(service,
                                                     call.entry_contents),
                        pc |-> "await"]
            /\ dispatch_chat(analysis_request(service, call.entry_contents))
            /\ result' = None

\* the chat call of analyze_echo_patterns: send().await returns, with an
\* error or with the response to a one-section reply
OllamaThemesResponds ==
    /\ call.pc = "await"
    /\ call.op = "analyze"
    /\ http.some
    /\ \E resp \in Drawn(ThemeHttpResponses) :
          IF resp.transport = "send_error"
          THEN /\ reply' = Some(resp)
               /\ resume(ollama_chat_result(service, call.request, resp))
          ELSE /\ reply' = Some(received(resp))
               /\ call' = [call EXCEPT !.pc = "json"]
               /\ UNCHANGED <<service, http, child, result, earlier, hasher,
                              orphans, host>>

\* the chat call of analyze_echo_patterns: response.json().await returns,
\* with a one-section reply
OllamaThemesReturns ==
    /\ call.pc = "json"
    /\ call.op = "analyze"
    /\ http.some
    /\ \E resp \in Drawn(ThemeHttpResponses) :
          /\ resp.transport # "send_error"
          /\ received(resp) = reply.val
          /\ reply' = Some(resp)
          /\ resume(ollama_chat_result(service, call.request, resp))

\* the child of the chat call of analyze_echo_patterns ends, with a
\* one-section reply
LlamaCppThemesReturns ==
    /\ ~Ready
    /\ child.some
    /\ \E output \in Drawn(ThemeProcessOutputs) :
          /\ reply' = Some(output)
          /\ resume(llamacpp_chat_result(output))

\* the adapter, the reply and the Result of the call that has returned,
\* when the call now made asks again for the embedding of the same text
RepeatedEmbedding(request) ==
    IF call.op = "embed" /\ ~earlier.some /\ call.request.text = request.text
    THEN Some([self |-> call.self, reply |-> reply, result |-> result])
    ELSE None

\* generate_embedding is called: on Ollama it runs `ollama run`, on
\* llama.cpp it returns at once
GenerateEmbedding(request) ==
    /\ Ready
    /\ reply' = None
    /\ earlier' = RepeatedEmbedding(request)
    /\ UNCHANGED <<service, hasher, orphans, host>>
    /\ http' = None
    /\ IF service.model.kind = "ollama"
       THEN /\ call' = [op |-> "embed", self |-> service,
                        request |-> request, pc |-> "await"]
            /\ child' = Some(OllamaEmbeddingCommand(
                             unwrap_or_else(request.model,
                                            service.embedding_model),
                             request.text))
            /\ result' = None
       ELSE /\ call' = [op |-> "embed", self |-> service,
                        request |-> request, pc |-> "done"]
            /\ child' = None
            /\ result' = Some(Ok([embedding |-> mock_embedding(service,
                                                               request.text),
                                  model     |-> "mock-embedding"]))

\* the child of generate_ollama_embedding ends
OllamaEmbeddingReturns ==
    /\ ~Ready
    /\ call.op = "embed"
    /\ child.some
    /\ \E output \in EmbedProcessOutputs :
          /\ reply' = Some(output)
          /\ result' = Some(ollama_embedding_result(call.self, call.request,
                                                    output))
    /\ call' = [call EXCEPT !.pc = "done"]
    /\ UNCHANGED <<service, http, child, earlier, hasher, orphans, host>>

\* list_models is called: on Ollama it runs `ollama list`, on llama.cpp
\* it returns at once
ListModels ==
    /\ Ready
    /\ reply' = None
    /\ earlier' = None
    /\ UNCHANGED <<service, hasher, orphans, host>>
    /\ http' = None
    /\ IF service.model.kind = "ollama"
       THEN /\ call' = [op |-> "list", pc |-> "await"]
            /\ child' = Some([program |-> "ollama", args |-> <<"list">>])
            /\ result' = None
       ELSE /\ call' = [op |-> "list", pc |-> "done"]
            /\ child' = None
            /\ result' = Some(Ok(LlamaCppModels))

\* the child of list_models ends
OllamaListReturns ==
    /\ ~Ready
    /\ call.op = "list"
    /\ child.some
    /\ \E output \in ListProcessOutputs :
          /\ reply' = Some(output)
          /\ result' = Some(ollama_list_result(output))
    /\ call' = [call EXCEPT !.pc = "done"]
    /\ UNCHANGED <<service, http, child, earlier, hasher, orphans, host>>

\* what Command::output of the probe may come to, the child printing
\* nothing or a line
ProbeProcessOutputs ==
    { [spawned |-> FALSE] }
    \cup { [spawned |-> TRUE, status |-> st, stdout |-> out, stderr |-> e]
             : st \in ExitStatuses,
               out \in {"", "usage: runner [options]"},
               e \in StderrTexts }

\* availability_result that holds only a clean exit for available
availability_result_CleanExitOnly(output) ==
    Ok(output.spawned /\ success(output.status))

\* check_availability, from the resumed await to the return: is_ok of what
\* Command::output came to
availability_result(output) == Ok(output.spawned)

\* check_availability is called: both arms run a command
CheckAvailability ==
    /\ Ready
    /\ call' = [op |-> "probe", pc |-> "await"]
    /\ http' = None
    /\ child' = Some(IF service.model.kind = "ollama"
                      THEN [program |-> "ollama", args |-> <<"list">>]
                      ELSE [program |-> service.model.path,
                            args |-> <<"--help">>])
    /\ reply' = None
    /\ result' = None
    /\ earlier' = None
    /\ UNCHANGED <<service, hasher, orphans, host>>

\* the child of check_availability ends
ProbeReturns ==
    /\ ~Ready
    /\ call.op = "probe"
    /\ child.some
    /\ \E output \in ProbeProcessOutputs :
          /\ reply' = Some(output)
          /\ result' = Some(availability_result(output))
    /\ call' = [call EXCEPT !.pc = "done"]
    /\ UNCHANGED <<service, http, child, earlier, hasher, orphans, host>>

\* most children left running at a time: with as many running, the model
\* follows no further drop of a call that has a child
MaxOrphans == 1

\* the host drops the future of the call in flight.  Dropping the future of
\* the HTTP exchange closes its connection.  Dropping the future of
\* Command::output drops the Child, and tokio kills a dropped Child only
\* when kill_on_drop was set, which no Command of the adapter does: a child
\* that was spawned and has not ended goes on running.
Cancel ==
    /\ call.pc \in {"await", "json"}
    /\ child.some => BagCardinality(orphans) < MaxOrphans
    /\ call' = [op |-> "dropped", dropped |-> call.op, left |-> child,
                pc |-> "done"]
    /\ http' = None
    /\ child' = None
    /\ \E running \in BOOLEAN :
          /\ running => child.some
          /\ orphans' = IF running THEN orphans (+) SetToBag({child.val})
                         ELSE orphans
    /\ reply' = None
    /\ result' = None
    /\ UNCHANGED <<service, earlier, hasher, host>>

\* a child left running ends by itself
OrphanExits ==
    /\ \E c \in BagToSet(orphans) : orphans' = orphans (-) SetToBag({c})
    /\ UNCHANGED <<service, call, http, child, reply, result, earlier,
                   hasher, host>>

\* no adapter: AIService::new has not returned one
NoService == [model |-> [kind |-> "none"]]

\* the caller is about to construct the adapter
InitConstruct ==
    /\ service = NoService
    /\ \E t \in ModelTypes, p \in ModelPaths, e \in EnvOllamaUrl :
          /\ t # "ollama" => e = None
          /\ call = [op |-> "new", model_type |-> t, model_path |-> p,
                     env_url |-> e, pc |-> "start"]
    /\ http = None
    /\ child = None
    /\ reply = None
    /\ result = None
    /\ earlier = None
    /\ hasher = SipHash13
    /\ orphans = EmptyBag
    /\ Managed

\* AIService::new returns: the adapter, or the error, with which the caller
\* has nothing to call an operation on
Construct ==
    /\ call.op = "new"
    /\ call.pc = "start"
    /\ result' = Some(New(call.model_type, call.model_path, call.env_url))
    /\ IF New(call.model_type, call.model_path, call.env_url).ok
       THEN /\ service'
                 = New(call.model_type, call.model_path, call.env_url).val
            /\ call' = [call EXCEPT !.pc = "done"]
       ELSE /\ service' = service
            /\ call' = [call EXCEPT !.pc = "failed"]
    /\ UNCHANGED <<http, child, reply, earlier, hasher, orphans, host>>

Next ==
    \/ \E request \in ChatRequests : GenerateChat(request)
    \/ \E entry_contents \in EntryLists : AnalyzeEchoPatterns(entry_contents)
    \/ OllamaChatResponds
    \/ OllamaChatReturns
    \/ LlamaCppChatReturns

Spec == Init /\ [][Next]_vars

\* analyze_echo_patterns alone, called and called again, over one-section
\* replies with every kind of item line
NextThemes ==
    \/ \E entry_contents \in EntryLists : AnalyzeEchoPatterns(entry_contents)
    \/ RepeatAnalysis
    \/ OllamaThemesResponds
    \/ OllamaThemesReturns
    \/ LlamaCppThemesReturns

SpecThemes == Init /\ [][NextThemes]_vars

\* the adapter built, linked with any of the hashers
InitEmbed ==
    /\ \E t \in ModelTypes, p \in ModelPaths, e \in EnvOllamaUrl :
          /\ New(t, p, e).ok
          /\ t = "llama.cpp" => e = None
          /\ service = New(t, p, e).val
    /\ call = Idle
    /\ http = None
    /\ child = None
    /\ reply = None
    /\ result = None
    /\ earlier = None
    /\ hasher \in Hashers
    /\ orphans = EmptyBag
    /\ Managed

\* generate_embedding alone
NextEmbed ==
    \/ \E request \in EmbeddingRequests : GenerateEmbedding(request)
    \/ OllamaEmbeddingReturns

SpecEmbed == InitEmbed /\ [][NextEmbed]_vars

\* AIService::new builds another adapter, of any model type, path and
\* OLLAMA_URL, on which the caller makes its next calls; what the call
\* before returned stays with the caller
NewInstance ==
    /\ Ready
    /\ \E t \in ModelTypes, p \in ModelPaths, e \in EnvOllamaUrl :
          /\ New(t, p, e).ok
          /\ t = "llama.cpp" => e = None
          /\ service' = New(t, p, e).val
    /\ service' # service
    /\ UNCHANGED <<call, http, child, reply, result, earlier, hasher,
                   orphans, host>>

\* generate_embedding called on one adapter and on another, linked with
\* the hasher of today's standard library
NextInstances ==
    \/ \E request \in EmbeddingRequests : GenerateEmbedding(request)
    \/ OllamaEmbeddingReturns
    \/ NewInstance

SpecInstances == Init /\ [][NextInstances]_vars

\* list_models alone
NextCatalog ==
    \/ ListModels
    \/ OllamaListReturns

SpecCatalog == Init /\ [][NextCatalog]_vars

\* check_availability and generate_chat, whose calls in flight the host may
\* drop
NextProbe ==
    \/ CheckAvailability
    \/ ProbeReturns
    \/ \E request \in ChatRequests : GenerateChat(request)
    \/ OllamaChatResponds
    \/ OllamaChatReturns
    \/ LlamaCppChatReturns
    \/ Cancel
    \/ OrphanExits

SpecProbe == Init /\ [][NextProbe]_vars

\* the adapter from its construction on, with every operation that matches
\* on the backend (analyze_echo_patterns does not: it calls generate_chat)
NextConstruct ==
    \/ Construct
    \/ \E request \in ChatRequests : GenerateChat(request)
    \/ OllamaChatResponds
    \/ OllamaChatReturns
    \/ LlamaCppChatReturns
    \/ \E request \in EmbeddingRequests : GenerateEmbedding(request)
    \/ OllamaEmbeddingReturns
    \/ ListModels
    \/ OllamaListReturns
    \/ CheckAvailability
    \/ ProbeReturns

SpecConstruct == InitConstruct /\ [][NextConstruct]_vars

----------------------------------------------------------------------------
(* The host: AppState, startup and the commands (main.rs) *)

\* the state of the adapter whose calls the host awaits
adapter == <<service, call, http, child, reply, result, earlier, hasher,
             orphans>>

\* the commands that lock the AI service
AiCommands ==
    {"generate_embedding", "generate_chat_response", "analyze_echo_patterns",
     "get_ai_models", "check_ai_availability"}

\* the commands that open a database and store it
DbCommands == {"init_database", "set_database_path"}

\* initialize_services: app_data_dir joined with "journal.db"
JournalDb == "journal.db"

\* the Database that Database::new returns for a path
Opened(path) == [path |-> path]

\* what Database::new may come to for a path: the error of create_dir_all,
\* of connect_with or of the migrations, or the database
DatabaseNew(path) ==
    {Err("Failed to create database directory"),
     Err("Failed to connect to database"),
     Err("Failed to run database migrations"),
     Ok(Opened(path))}

\* the command has been invoked and has not returned; of a command that has
\* returned the task keeps the Result
InProgress(t) == tasks[t].pc \notin {"idle", "done"}

\* the webview invokes an AI command
InvokeAi ==
    /\ \E t \in Commands, cmd \in AiCommands :
          /\ ~InProgress(t)
          /\ tasks' = [tasks EXCEPT ![t] = [cmd |-> cmd, pc |-> "start"]]
    /\ UNCHANGED <<database, ai_service, database_path, ai_guard, adapter>>

\* the webview invokes init_database or set_database_path, with one of two
\* paths
InvokeDb ==
    /\ \E t \in Commands, cmd \in DbCommands, path \in {"a.db", "b.db"} :
          /\ ~InProgress(t)
          /\ tasks' = [tasks EXCEPT ![t] = [cmd |-> cmd, path |-> path,
                                            pc |-> "start"]]
    /\ UNCHANGED <<database, ai_service, database_path, ai_guard, adapter>>

\* AiCommandLocks with the guard dropped before the call of the adapter
AiCommandLocks_GuardDropped ==
    /\ \E t \in Commands :
          /\ tasks[t].cmd \in AiCommands
          /\ tasks[t].pc = "start"
          /\ ai_guard = None
          /\ IF ai_service.some
             THEN tasks' = [tasks EXCEPT ![t] = [cmd |-> tasks[t].cmd,
                                                 pc |-> "adapter"]]
             ELSE tasks' = [tasks EXCEPT ![t] =
                               [cmd |-> "none", pc |-> "done",
                                called |-> FALSE,
                                result |-> Err("AI service not initialized")]]
          /\ ai_guard' = None
    /\ UNCHANGED <<database, ai_service, database_path, adapter>>

\* an AI command gets the lock of ai_service: with the slot empty it
\* returns the error and its guard is dropped, and otherwise it calls the
\* adapter and awaits it with the guard held
AiCommandLocks ==
    /\ \E t \in Commands :
          /\ tasks[t].cmd \in AiCommands
          /\ tasks[t].pc = "start"
          /\ ai_guard = None
          /\ IF ai_service.some
             THEN /\ tasks' = [tasks EXCEPT ![t] = [cmd |-> tasks[t].cmd,
                                                    pc |-> "adapter"]]
                  /\ ai_guard' = Some(t)
             ELSE /\ tasks' = [tasks EXCEPT ![t] =
                                 [cmd |-> "none", pc |-> "done",
                                  called |-> FALSE,
                                  result |-> Err("AI service not initialized")]]
                  /\ ai_guard' = None
    /\ UNCHANGED <<database, ai_service, database_path, adapter>>

\* the call of the adapter returns to the AI command, which returns its
\* Result mapped, an Ok or an Err; the guard is dropped
AdapterReturns ==
    /\ \E t \in Commands, r \in {Ok("returned"), Err("adapter error")} :
          /\ tasks[t].pc = "adapter"
          /\ tasks' = [tasks EXCEPT ![t] = [cmd |-> "none",
                                            pc |-> "done", called |-> TRUE,
                                            result |-> r]]
          /\ ai_guard' = IF ai_guard = Some(t) THEN None ELSE ai_guard
    /\ UNCHANGED <<database, ai_service, database_path, adapter>>

\* init_database, set_database_path: Database::new returns; on an error
\* the command returns it
DatabaseOpens ==
    /\ \E t \in Commands :
          /\ tasks[t].cmd \in DbCommands
          /\ tasks[t].pc = "start"
          /\ \E r \in DatabaseNew(tasks[t].path) :
                tasks' = [tasks EXCEPT ![t] =
                            IF r.ok
                            THEN [tasks[t] EXCEPT !.pc = "opened"]
                            ELSE [cmd |-> "none", pc |-> "done",
                                  result |-> Err(r.err)]]
    /\ UNCHANGED <<database, ai_service, database_path, ai_guard, adapter>>

\* init_database, set_database_path: the database is stored under the lock
\* of the database slot
StoreDatabase ==
    /\ \E t \in Commands :
          /\ tasks[t].cmd \in DbCommands
          /\ tasks[t].pc = "opened"
          /\ database' = Some(Opened(tasks[t].path))
          /\ tasks' = [tasks EXCEPT ![t].pc = "stored"]
    /\ UNCHANGED <<ai_service, database_path, ai_guard, adapter>>

\* init_database, set_database_path: the path is stored under the lock of
\* the path slot, and the command returns
StorePath ==
    /\ \E t \in Commands :
          /\ tasks[t].cmd \in DbCommands
          /\ tasks[t].pc = "stored"
          /\ database_path' = Some(tasks[t].path)
          /\ tasks' = [tasks EXCEPT ![t] = [cmd |-> "none",
                                            pc |-> "done",
                                            result |-> Ok("unit")]]
    /\ UNCHANGED <<database, ai_service, ai_guard, adapter>>

\* StartupOpens that goes on to the AI service when the database could not
\* be opened
StartupOpens_AiWithoutDatabase ==
    /\ tasks[Startup].pc = "start"
    /\ \E dir \in BOOLEAN, r \in DatabaseNew(JournalDb) :
          tasks' = [tasks EXCEPT ![Startup] =
                      IF ~dir
                      THEN [cmd |-> "initialize_services", pc |-> "done",
                            result |-> Err("no app data dir")]
                      ELSE IF ~r.ok
                      THEN [cmd |-> "initialize_services",
                            pc |-> "stored_database"]
                      ELSE [cmd |-> "initialize_services", pc |-> "opened"]]
    /\ UNCHANGED <<database, ai_service, database_path, ai_guard, adapter>>

\* initialize_services up to its first lock: app_data_dir, Database::new
\* and AIService::new("ollama", ""), each of which ends the task with its
\* error
StartupOpens ==
    /\ tasks[Startup].pc = "start"
    /\ \E dir \in BOOLEAN, r \in DatabaseNew(JournalDb) :
          tasks' = [tasks EXCEPT ![Startup] =
                      IF ~dir
                      THEN [cmd |-> "initialize_services", pc |-> "done",
                            result |-> Err("no app data dir")]
                      ELSE IF ~r.ok
                      THEN [cmd |-> "initialize_services", pc |-> "done",
                            result |-> Err(r.err)]
                      ELSE IF ~New("ollama", "", None).ok
                      THEN [cmd |-> "initialize_services", pc |-> "done",
                            result |-> Err(New("ollama", "", None).err)]
                      ELSE [cmd |-> "initialize_services", pc |-> "opened"]]
    /\ UNCHANGED <<database, ai_service, database_path, ai_guard, adapter>>

\* initialize_services stores the database
StartupStoresDatabase ==
    /\ tasks[Startup].pc = "opened"
    /\ database' = Some(Opened(JournalDb))
    /\ tasks' = [tasks EXCEPT ![Startup].pc = "stored_database"]
    /\ UNCHANGED <<ai_service, database_path, ai_guard, adapter>>

\* initialize_services stores the adapter, once it has the lock of
\* ai_service
StartupStoresAiService ==
    /\ tasks[Startup].pc = "stored_database"
    /\ ai_guard = None
    /\ ai_service' = Some(New("ollama", "", None).val)
    /\ tasks' = [tasks EXCEPT ![Startup].pc = "stored_ai_service"]
    /\ UNCHANGED <<database, database_path, ai_guard, adapter>>

\* initialize_services stores the path and returns
StartupStoresPath ==
    /\ tasks[Startup].pc = "stored_ai_service"
    /\ database_path' = Some(JournalDb)
    /\ tasks' = [tasks EXCEPT ![Startup] =
                    [cmd |-> "initialize_services", pc |-> "done",
                     result |-> Ok("unit")]]
    /\ UNCHANGED <<database, ai_service, ai_guard, adapter>>

\* the application started: no adapter built yet, the slots empty
InitHost ==
    /\ service = NoService
    /\ call = Idle
    /\ http = None
    /\ child = None
    /\ reply = None
    /\ result = None
    /\ earlier = None
    /\ hasher = SipHash13
    /\ orphans = EmptyBag
    /\ Managed

NextHost ==
    \/ StartupOpens
    \/ StartupStoresDatabase
    \/ StartupStoresAiService
    \/ StartupStoresPath
    \/ InvokeAi
    \/ AiCommandLocks
    \/ AdapterReturns
    \/ InvokeDb
    \/ DatabaseOpens
    \/ StoreDatabase
    \/ StorePath

SpecHost == InitHost /\ [][NextHost]_vars

----------------------------------------------------------------------------
(* Properties of the chat drivers *)

\* the call in flight or returned made a chat request
HasRequest == "request" \in DOMAIN call

OnOllama == service.model.kind = "ollama"
OnLlamaCpp == service.model.kind = "llama.cpp"

\* the chat result the returned call got from its driver
ChatOutcome ==
    IF OnOllama THEN ollama_chat_result(service, call.request, reply.val)
    ELSE llamacpp_chat_result(reply.val)

\* C1: on the HTTP backend the body sent for a chat request has exactly the
\* two messages system and user, in this order, the user content is the
\* request's message, stream is false, the model is the request's model
\* when given and "llama3.2" otherwise; a successful chat returns the model
\* that was sent.
C1_HttpChatBody ==
    (HasRequest /\ OnOllama) =>
        /\ http.some
        /\ Len(http.val.body.messages) = 2
        /\ http.val.body.messages[1].role = "system"
        /\ http.val.body.messages[2].role = "user"
        /\ http.val.body.messages[2].content = call.request.message
        /\ http.val.body.stream = FALSE
        /\ http.val.body.model = IF call.request.model.some
                                 THEN call.request.model.val ELSE "llama3.2"
        /\ (call.op = "chat" /\ call.pc = "done" /\ result.val.ok) =>
               result.val.val.model = http.val.body.model

\* a chat on the HTTP backend that named a model has succeeded
C1_Witness ==
    /\ call.op = "chat" /\ OnOllama /\ call.pc = "done"
    /\ call.request.model = Some("mistral")
    /\ result.val.ok
    /\ result.val.val.model = "mistral"

\* the response body has a string at message.content
HasContentString(body) ==
    /\ body.json
    /\ body.value.t = "obj"
    /\ "message" \in DOMAIN body.value.o
    /\ body.value.o.message.t = "obj"
    /\ "content" \in DOMAIN body.value.o.message.o
    /\ body.value.o.message.o.content.t = "str"

\* C2: on the HTTP backend chat fails exactly when the transport fails, the
\* body is not JSON or the body has no string at message.content; in every
\* other case it succeeds with that string as response and no tokens_used.
C2_HttpChatFailsExactlyWhen ==
    (call.op = "chat" /\ OnOllama /\ call.pc = "done") =>
        LET fails == \/ reply.val.transport # "ok"
                     \/ ~HasContentString(reply.val.body)
        IN  /\ fails <=> ~result.val.ok
            /\ ~fails =>
                  /\ result.val.val.response
                        = reply.val.body.value.o.message.o.content.s
                  /\ result.val.val.tokens_used = None

\* the sentences before the context paragraph of the system message
IntroSentences ==
    "You are a helpful AI introspection companion for MyFace SnapJournal. "
    \o "You help users reflect on their journal entries and social media posts. "

\* the context paragraph
ContextParagraph(context) ==
    "Use the following context about the user's entries:\n\n"
    \o context \o "\n\n "

\* the sentences after the context paragraph
ClosingSentences ==
    "Be empathetic, insightful, and encouraging. "
    \o "Help them discover patterns and insights in their writing."

\* C3: the system message of a request without context is the system
\* message of a request with context with only the context paragraph
\* removed.
C3_SystemMessageMinusContext ==
    (HasRequest /\ OnOllama) =>
        http.val.body.messages[1].content
            = IF call.request.context.some
              THEN IntroSentences
                   \o ContextParagraph(call.request.context.val)
                   \o ClosingSentences
              ELSE IntroSentences \o ClosingSentences

\* C4: on the process backend the configured executable is invoked with
\* the arguments "-p", prompt, "-n", "256", where prompt is
\* "Context: {context}\n\nUser: {message}\n\nAssistant:" with a context and
\* "User: {message}\n\nAssistant:" without; the request's model plays no
\* part.
C4_ProcessChatArguments ==
    (HasRequest /\ OnLlamaCpp) =>
        /\ http = None
        /\ child.some
        /\ child.val.program = service.model.path
        /\ child.val.args
              = << "-p",
                   IF call.request.context.some
                   THEN "Context: " \o call.request.context.val
                        \o "\n\nUser: " \o call.request.message
                        \o "\n\nAssistant:"
                   ELSE "User: " \o call.request.message
                        \o "\n\nAssistant:",
                   "-n", "256" >>

\* a chat with a context and a model is in flight on the process backend
C4_Witness ==
    /\ call.op = "chat" /\ OnLlamaCpp /\ call.pc = "await"
    /\ call.request.context = Some("I was late today")
    /\ call.request.model = Some("mistral")
    /\ child.some
    /\ child.val.args[1] = "-p"

\* r is s without its leading and trailing whitespace
IsTrimmed(r, s) ==
    /\ r = <<>> \/ (r[1] \notin White /\ r[Len(r)] \notin White)
    /\ \E i, j \in 0..Len(s) :
          /\ i + j <= Len(s)
          /\ r = SubSeq(s, i + 1, Len(s) - j)
          /\ \A k \in 1..i : s[k] \in White
          /\ \A k \in (Len(s) - j + 1)..Len(s) : s[k] \in White

\* C5: chat on the process backend returns an error when the spawn fails
\* or the child does not exit with status zero, with the child's stderr in
\* the error text in the latter case; when the child exits with status
\* zero it returns stdout without its surrounding whitespace, the model
\* "llama.cpp" and no tokens_used.
C5_ProcessChatOutcome ==
    (call.op = "chat" /\ OnLlamaCpp /\ call.pc = "done") =>
        /\ ~reply.val.spawned => ~result.val.ok
        /\ (reply.val.spawned /\ reply.val.status.code # Some(0)) =>
              /\ ~result.val.ok
              /\ result.val.err
                    = "llama.cpp chat failed: " \o reply.val.stderr
        /\ (reply.val.spawned /\ reply.val.status.code = Some(0)) =>
              /\ result.val.ok
              /\ IsTrimmed(result.val.val.response, reply.val.stdout)
              /\ result.val.val.model = "llama.cpp"
              /\ result.val.val.tokens_used = None

\* a chat that named a model got stdout with surrounding whitespace from a
\* child that exited with status zero
C5_Witness ==
    /\ call.op = "chat" /\ OnLlamaCpp /\ call.pc = "done"
    /\ call.request.model = Some("mistral")
    /\ reply.val.spawned
    /\ reply.val.status.code = Some(0)
    /\ reply.val.stdout = <<" ", " ", "o", "k", " ", "\n">>
    /\ result.val.ok
    /\ result.val.val.response = <<"o", "k">>

----------------------------------------------------------------------------
(* Properties of analyze_echo_patterns *)

\* analyze_echo_patterns has returned for a non-empty input
AnalysisReturned ==
    call.op = "analyze" /\ call.pc = "done" /\ call.entry_contents # <<>>

\* C6: analyze_echo_patterns with no entries returns the analysis without
\* patterns, insights and mood trends, and makes no chat call, sends no
\* request and spawns no process.
C6_EmptyInputEmptyReport ==
    (call.op = "analyze" /\ call.entry_contents = <<>>) =>
        /\ call.pc = "done"
        /\ result.some /\ result.val.ok
        /\ result.val.val.patterns = <<>>
        /\ result.val.val.insights = <<>>
        /\ DOMAIN result.val.val.mood_trends = {}
        /\ ~HasRequest
        /\ http = None
        /\ child = None
        /\ reply = None

\* analyze_echo_patterns has returned the empty analysis for no entries
C6_Witness ==
    /\ call.op = "analyze" /\ call.entry_contents = <<>>
    /\ result = Some(Ok([patterns |-> <<>>, insights |-> <<>>,
                         mood_trends |-> <<>>]))

\* neutral 0.5, positive 0.3, negative 0.2
DocumentedFallbackMoods ==
    <<"n", "e", "u", "t", "r", "a", "l">> :> Finite(FALSE, 5, 1)
    @@ <<"p", "o", "s", "i", "t", "i", "v", "e">> :> Finite(FALSE, 3, 1)
    @@ <<"n", "e", "g", "a", "t", "i", "v", "e">> :> Finite(FALSE, 2, 1)

\* C7: when the chat call of analyze_echo_patterns fails, for an input of
\* any length, the call returns no error but the analysis with no patterns,
\* no insights and the mood trends neutral 0.5, positive 0.3, negative 0.2.
C7_ChatFailureFallback ==
    (AnalysisReturned /\ ~ChatOutcome.ok) =>
        /\ result.val.ok
        /\ result.val.val.patterns = <<>>
        /\ result.val.val.insights = <<>>
        /\ result.val.val.mood_trends = DocumentedFallbackMoods

\* the chat call failed for an input of more than three entries
C7_Witness ==
    /\ AnalysisReturned
    /\ Len(call.entry_contents) > 3
    /\ ~ChatOutcome.ok
    /\ result.val.ok
    /\ result.val.val.patterns = <<>>

\* the mood trend of the value lies in [0.0, 1.0]: the value is zero, or
\* above zero and at most 100
InUnitRange(value) ==
    /\ value.class = "finite"
    /\ value.m # 0 =>
          /\ ~value.neg
          /\ value.e <= 2
          /\ value.e >= 0 => value.m <= 100 \div 10^value.e
          /\ (value.e < 0 /\ value.e > -8) => value.m <= 100 * 10^(0 - value.e)

\* C8: in every analysis returned every pattern's strength and every mood
\* trend lies in [0.0, 1.0].
C8_StrengthsAndMoodsInUnitRange ==
    (call.op = "analyze" /\ call.pc = "done") =>
        /\ \A k \in 1..Len(result.val.val.patterns) :
              /\ result.val.val.patterns[k].strength >= 0
              /\ result.val.val.patterns[k].strength <= 100
        /\ \A mood \in DOMAIN result.val.val.mood_trends :
              InUnitRange(result.val.val.mood_trends[mood])

Labels == {PATTERNS, INSIGHTS, MOODS}

\* the text between the first occurrence of label and the next label that
\* follows it; no text when the label does not occur
SectionOf(text, label) ==
    LET at == find_from(text, label, 1) IN
    IF at = 0 THEN <<>>
    ELSE LET from   == at + Len(label)
             labels == { find_from(text, l, from) : l \in Labels } \ {0}
             to     == IF labels = {} THEN Len(text) + 1
                       ELSE CHOOSE i \in labels : \A j \in labels : i <= j
         IN  SubSeq(text, from, to - 1)

\* the items of text
SetOfLines(text) == { lines(text)[k] : k \in 1..Len(lines(text)) }

\* C9: patterns come only from lines of the text between the first
\* "PATTERNS:" and the next label, insights only from lines between the
\* first "INSIGHTS:" and the next label, moods only from lines between the
\* first "MOODS:" and the next label.
C9_SectionsEndAtNextLabel ==
    (AnalysisReturned /\ ChatOutcome.ok) =>
        LET text     == ChatOutcome.val.response
            analysis == result.val.val
        IN  /\ \A k \in 1..Len(analysis.patterns) :
                  \/ analysis.patterns[k].pattern_type = "habit"
                  \/ \E line \in SetOfLines(SectionOf(text, PATTERNS)) :
                        /\ starts_with(line, DashBlank)
                        /\ Len(splitn2(from2(line), ":")) = 2
                        /\ analysis.patterns[k].title
                              = trim(splitn2(from2(line), ":")[1])
                        /\ analysis.patterns[k].description
                              = trim(splitn2(from2(line), ":")[2])
            /\ \A k \in 1..Len(analysis.insights) :
                  \E line \in SetOfLines(SectionOf(text, INSIGHTS)) :
                      /\ starts_with(line, DashBlank)
                      /\ analysis.insights[k] = trim(from2(line))
            /\ \A mood \in DOMAIN analysis.mood_trends :
                  \E line \in SetOfLines(SectionOf(text, MOODS)) :
                      /\ starts_with(line, DashBlank)
                      /\ Len(splitn2(from2(line), ":")) = 2
                      /\ mood = trim(splitn2(from2(line), ":")[1])

\* the pattern is the synthetic "Regular Journaling" pattern
IsRegularJournaling(pattern) ==
    /\ pattern.title = <<"R", "e", "g", "u", "l", "a", "r", " ", "J", "o", "u",
                     "r", "n", "a", "l", "i", "n", "g">>
    /\ pattern.strength = 70
    /\ pattern.pattern_type = "habit"
    /\ pattern.tags = <<"consistency">>
    /\ pattern.entry_ids = <<>>

\* C10: after a successful chat call the synthetic pattern is added exactly
\* when no pattern was parsed and there are more than three entries; with
\* at most three entries and no pattern parsed there is no pattern, and
\* with a pattern parsed the synthetic pattern is absent.
C10_RegularJournalingFallback ==
    (AnalysisReturned /\ ChatOutcome.ok) =>
        LET parsed   == parsed_patterns(ChatOutcome.val.response)
            patterns == result.val.val.patterns
        IN  /\ (parsed = <<>> /\ Len(call.entry_contents) > 3) =>
                  Len(patterns) = 1 /\ IsRegularJournaling(patterns[1])
            /\ (parsed = <<>> /\ Len(call.entry_contents) <= 3) =>
                  patterns = <<>>
            /\ parsed # <<>> =>
                  /\ Len(patterns) = Len(parsed)
                  /\ \A k \in 1..Len(patterns) :
                        ~IsRegularJournaling(patterns[k])

\* with exactly three entries and a reply without patterns nothing is added
C10_Witness ==
    /\ AnalysisReturned /\ ChatOutcome.ok
    /\ Len(call.entry_contents) = 3
    /\ parsed_patterns(ChatOutcome.val.response) = <<>>
    /\ result.val.val.patterns = <<>>
    /\ result.val.val.insights # <<>>

\* the position of the first ":" of text; 0 when it has none
FirstColon(text) ==
    IF \E i \in 1..Len(text) : text[i] = ":"
    THEN CHOOSE i \in 1..Len(text) :
            text[i] = ":" /\ \A j \in 1..(i - 1) : text[j] # ":"
    ELSE 0

\* the line begins with "- " and has a ":" after it
IsKeyedItem(line) ==
    /\ Len(line) >= 2 /\ line[1] = "-" /\ line[2] = " "
    /\ FirstColon(SubSeq(line, 3, Len(line))) > 0

\* the text between "- " and the first ":" after it, trimmed
KeyOf(line) ==
    LET rest == SubSeq(line, 3, Len(line)) IN
    trim(SubSeq(rest, 1, FirstColon(rest) - 1))

\* the rest of the line after that ":", trimmed
ValueOf(line) ==
    LET rest == SubSeq(line, 3, Len(line)) IN
    trim(SubSeq(rest, FirstColon(rest) + 1, Len(rest)))

IsCustom(pattern) == pattern.pattern_type = "custom"

\* C11: after a successful chat reply the parsed patterns are, in reply
\* order, one pattern for each line of the PATTERNS section (the text
\* between the first "PATTERNS:" and the next label) that begins with "- "
\* and has a ":" after it, with the trimmed text before the first ":" as
\* title, the trimmed rest as description, strength 0.8, no entry ids, no
\* tags and pattern_type "custom"; no other line adds a pattern.
C11_OnePatternPerKeyedLine ==
    (AnalysisReturned /\ ChatOutcome.ok) =>
        LET section == SectionOf(ChatOutcome.val.response, PATTERNS)
            keyed   == SelectSeq(lines(section), IsKeyedItem)
            parsed  == SelectSeq(result.val.val.patterns, IsCustom)
        IN  /\ Len(parsed) = Len(keyed)
            /\ \A k \in 1..Len(parsed) :
                  /\ parsed[k].title = KeyOf(keyed[k])
                  /\ parsed[k].description = ValueOf(keyed[k])
                  /\ parsed[k].strength = 80
                  /\ parsed[k].entry_ids = <<>>
                  /\ parsed[k].tags = <<>>

\* the value text without one trailing "%"
WithoutTrailingPercent(value) ==
    IF value # <<>> /\ value[Len(value)] = "%"
    THEN SubSeq(value, 1, Len(value) - 1)
    ELSE value

\* the mood trends the lines give when only a trailing "%" is removed from
\* a value and a line whose value is then no number is skipped
RECURSIVE TrendsOf(_, _)
TrendsOf(map, ls) ==
    IF ls = <<>> THEN map
    ELSE LET line   == Head(ls)
             number == parse_f64(WithoutTrailingPercent(ValueOf(line)))
         IN  IF IsKeyedItem(line) /\ number.ok
             THEN TrendsOf(insert(map, KeyOf(line), number.val), Tail(ls))
             ELSE TrendsOf(map, Tail(ls))

\* C12: after a successful chat reply mood_trends maps, for each line
\* "- mood: value" of the MOODS section, the trimmed mood to n/100, n being
\* the number that value is once one trailing "%" is removed; a line whose
\* value is then no number (a "%" in the middle, text) changes nothing.
C12_MoodsWithTrailingPercentOnly ==
    (AnalysisReturned /\ ChatOutcome.ok) =>
        result.val.val.mood_trends
            = TrendsOf(EmptyMap,
                       lines(SectionOf(ChatOutcome.val.response, MOODS)))

\* C13: every pattern of every analysis returned has a title that is not
\* empty, whatever the chat reply.
C13_TitlesNotEmpty ==
    (call.op = "analyze" /\ call.pc = "done") =>
        \A k \in 1..Len(result.val.val.patterns) :
            result.val.val.patterns[k].title # <<>>

\* analyze_echo_patterns has returned to a call that repeated the one
\* before, with the same entries and the same chat reply or failure
RepeatReturned ==
    call.op = "analyze" /\ call.pc = "done" /\ earlier.some

\* the analysis with the ids of its patterns left out
WithoutIds(analysis) ==
    [analysis EXCEPT !.patterns =
        [k \in 1..Len(analysis.patterns) |->
            [analysis.patterns[k] EXCEPT !.id = 0]]]

\* C14, as claimed: two calls of analyze_echo_patterns with the same
\* entries and the same chat reply (or the same failure) return equal
\* analyses, field for field.
C14_EqualFieldForField ==
    RepeatReturned => result = earlier.val.result

\* C14, amended: two calls of analyze_echo_patterns with the same entries
\* and the same chat reply (or the same failure) return analyses that are
\* equal in every field but the ids of the patterns: the same insights, the
\* same mood trends, and pattern for pattern the same title, description,
\* strength, entry ids, tags and pattern_type.
C14_EqualButForIds ==
    RepeatReturned =>
        /\ result.val.ok /\ earlier.val.result.val.ok
        /\ WithoutIds(result.val.val) = WithoutIds(earlier.val.result.val.val)

\* the repeated call parsed the same two patterns as the call before and
\* gave them other ids
C14_Witness ==
    /\ RepeatReturned
    /\ reply.some
    /\ reply = earlier.val.reply
    /\ ChatOutcome.ok
    /\ Len(result.val.val.patterns) = 2
    /\ result # earlier.val.result
    /\ WithoutIds(result.val.val) = WithoutIds(earlier.val.result.val.val)

----------------------------------------------------------------------------
(* Properties of generate_embedding *)

\* generate_embedding has returned
EmbedReturned == call.op = "embed" /\ call.pc = "done"

\* C15: generate_embedding returns the stand-in vector of the text only on
\* the llama.cpp backend; on the Ollama backend a successful call returns a
\* vector that the reply of the backend determines.
C15_StandInOnlyOnProcessBackend ==
    (/\ EmbedReturned
     /\ result.val.ok
     /\ result.val.val.embedding = mock_embedding(service,
                                                  call.request.text))
        => OnLlamaCpp

\* 1.0 and -1.0 in the unit of the components
One == 2^24
MinusOne == 0 - 2^24

\* C16: for every text, the empty one included, generate_embedding on the
\* llama.cpp backend returns at once, having spawned no process and sent no
\* request, the model "mock-embedding" and a vector of exactly 384
\* components, each in [-1.0, 1.0].
C16_ProcessBackendEmbedding ==
    (call.op = "embed" /\ OnLlamaCpp) =>
        /\ call.pc = "done"
        /\ http = None /\ child = None /\ reply = None
        /\ result.some /\ result.val.ok
        /\ result.val.val.model = "mock-embedding"
        /\ Len(result.val.val.embedding) = 384
        /\ \A k \in 1..Len(result.val.val.embedding) :
              /\ result.val.val.embedding[k] >= MinusOne
              /\ result.val.val.embedding[k] <= One

\* the empty text is embedded on llama.cpp with a hash of u64::MAX: the
\* first component is 1.0 and, the seed having wrapped to 0, the second -1.0
C16_Witness ==
    /\ EmbedReturned /\ OnLlamaCpp
    /\ call.request.text = ""
    /\ result.val.ok
    /\ Len(result.val.val.embedding) = 384
    /\ result.val.val.embedding[1] = One
    /\ result.val.val.embedding[2] = MinusOne

\* generate_embedding has returned a vector to a call for the same text as
\* the call before, which returned a vector too
EmbedRepeated ==
    /\ EmbedReturned
    /\ earlier.some
    /\ result.val.ok
    /\ earlier.val.result.val.ok

\* C17: the stand-in vector is a function of the text alone: two calls of
\* generate_embedding for the same text that return a vector return the
\* same vector, whatever calls were made before, whichever adapter each of
\* the two was made on (its backend, its models, its URL), whatever model
\* was asked for and whatever the backend replied.
C17_SameTextSameVector ==
    EmbedRepeated =>
        result.val.val.embedding = earlier.val.result.val.val.embedding

\* "Woke early." was embedded on a llama.cpp adapter and then on an Ollama
\* adapter, whose child printed a vector: the two calls, on adapters of
\* different configuration, got the same vector under different models
C17_Witness ==
    /\ EmbedRepeated /\ OnOllama
    /\ call.request.text = "Woke early."
    /\ call.self = service
    /\ earlier.val.self.model.kind = "llama.cpp"
    /\ earlier.val.self # call.self
    /\ reply.val.stdout = "[0.7]"
    /\ result.val.val.model # earlier.val.result.val.val.model
    /\ result.val.val.embedding = earlier.val.result.val.val.embedding

\* C18: generate_embedding on the Ollama backend returns an error and no
\* response exactly when the command could not be run or ended without
\* success; when it succeeds the model of the response is the model of the
\* request when given and "nomic-embed-text" otherwise.
C18_OllamaEmbeddingOutcome ==
    (EmbedReturned /\ OnOllama) =>
        /\ result.val.ok <=>
              (reply.val.spawned /\ reply.val.status.code = Some(0))
        /\ ~result.val.ok => "val" \notin DOMAIN result.val
        /\ result.val.ok =>
              result.val.val.model
                  = IF call.request.model.some THEN call.request.model.val
                    ELSE "nomic-embed-text"

\* the command ran and was killed by a signal: the call returned an error
C18_Witness ==
    /\ EmbedReturned /\ OnOllama
    /\ reply.val.spawned
    /\ reply.val.status.code = None
    /\ ~call.request.model.some
    /\ ~result.val.ok

----------------------------------------------------------------------------
(* Properties of list_models *)

\* list_models has returned
ListReturned == call.op = "list" /\ call.pc = "done"

\* the line has a character that is not whitespace
HasSolid(line) == \E i \in 1..Len(line) : line[i] \notin White

\* the first whitespace-delimited token of a line that has one
FirstToken(line) ==
    LET from == CHOOSE i \in 1..Len(line) :
                    line[i] \notin White /\ \A j \in 1..(i - 1) : line[j] \in White
        to   == CHOOSE i \in from..Len(line) :
                    /\ \A j \in from..i : line[j] \notin White
                    /\ i = Len(line) \/ line[i + 1] \in White
    IN  SubSeq(line, from, to)

\* C19: on the Ollama backend, when `ollama list` exits with success,
\* list_models returns, in the order of the output, the first
\* whitespace-delimited token of every line after the first that has a
\* character other than whitespace; the first line is dropped whatever it
\* holds and blank lines give nothing.
C19_FirstTokenOfLinesAfterHeader ==
    (/\ ListReturned /\ OnOllama
     /\ reply.val.spawned /\ reply.val.status.code = Some(0)) =>
        LET all   == lines(reply.val.stdout)
            solid == SelectSeq(SubSeq(all, 2, Len(all)), HasSolid)
        IN  /\ result.val.ok
            /\ Len(result.val.val) = Len(solid)
            /\ \A k \in 1..Len(solid) : result.val.val[k] = FirstToken(solid[k])

\* the listing "NAME ID SIZE\nllama3.2 abc 4GB\nnomic-embed-text def 300MB\n"
\* gave "llama3.2", "nomic-embed-text"
C19_Witness ==
    /\ ListReturned /\ OnOllama
    /\ reply.val.spawned /\ reply.val.status.code = Some(0)
    /\ reply.val.stdout = ListingOfTwo
    /\ result.val.ok
    /\ result.val.val
          = << <<"l", "l", "a", "m", "a", "3", ".", "2">>,
               <<"n", "o", "m", "i", "c", "-", "e", "m", "b", "e", "d", "-",
                 "t", "e", "x", "t">> >>

\* C20: list_models returns an error only on the Ollama backend and only
\* when `ollama list` could not be spawned; when the command ran and ended
\* without success the result is the empty list, whatever it printed; on
\* the llama.cpp backend list_models returns at once, without an error and
\* having spawned nothing, the list "llama2:7b", "codellama:7b".
C20_ListModelsErrors ==
    /\ ListReturned =>
          /\ ~result.val.ok => (OnOllama /\ ~reply.val.spawned)
          /\ (OnOllama /\ reply.val.spawned
                /\ reply.val.status.code # Some(0)) =>
                result.val.ok /\ result.val.val = <<>>
    /\ (call.op = "list" /\ OnLlamaCpp) =>
          /\ call.pc = "done"
          /\ http = None /\ child = None /\ reply = None
          /\ result.some /\ result.val.ok
          /\ result.val.val
                = << <<"l", "l", "a", "m", "a", "2", ":", "7", "b">>,
                     <<"c", "o", "d", "e", "l", "l", "a", "m", "a", ":",
                       "7", "b">> >>

\* `ollama list` printed the listing of two models and exited with status
\* 1: the empty list was returned
C20_Witness ==
    /\ ListReturned /\ OnOllama
    /\ reply.val.spawned
    /\ reply.val.status.code = Some(1)
    /\ reply.val.stdout = ListingOfTwo
    /\ result.val.ok
    /\ result.val.val = <<>>

----------------------------------------------------------------------------
(* Properties of AIService::new *)

\* AIService::new is about to return
Constructing == call.op = "new" /\ call.pc = "start"

\* the step starts the wait of an operation for its backend
StartsWait == call' # call /\ call'.pc = "await"

\* C23: construction fails with an error and yields no adapter when the
\* backend tag is not "ollama" or "llama.cpp"; with one of these tags it
\* succeeds and selects the variant of the tag; every later operation
\* dispatches on that variant (on Ollama a chat goes over HTTP and the
\* embedding, the listing and the probe run `ollama`; on llama.cpp the chat
\* and the probe run the executable of the model path and the embedding and
\* the listing return at once), and no operation changes the variant.
C23_Step ==
    /\ Constructing =>
          IF call.model_type \in {"ollama", "llama.cpp"}
          THEN /\ result'.val.ok
               /\ service' = result'.val.val
               /\ service'.model.kind = call.model_type
               /\ call.model_type = "llama.cpp" =>
                     service'.model.path = call.model_path
               /\ call'.pc = "done"
          ELSE /\ ~result'.val.ok
               /\ result'.val.err
                     = "Unsupported AI model type: " \o call.model_type
               /\ service' = NoService
               /\ call'.pc = "failed"
    /\ ~Constructing =>
          /\ call.pc # "failed"
          /\ service # NoService
          /\ service' = service
          /\ (StartsWait /\ service.model.kind = "ollama") =>
                /\ call'.op = "chat" => (http'.some /\ child' = None)
                /\ call'.op \in {"embed", "list", "probe"} =>
                      /\ http' = None
                      /\ child'.some
                      /\ child'.val.program = "ollama"
          /\ (StartsWait /\ service.model.kind = "llama.cpp") =>
                /\ call'.op \in {"chat", "probe"}
                /\ http' = None
                /\ child'.some
                /\ child'.val.program = service.model.path
          /\ (call' # call /\ call'.op \in {"embed", "list"}
                /\ service.model.kind = "llama.cpp") =>
                /\ call'.pc = "done"
                /\ http' = None /\ child' = None
                /\ result'.some /\ result'.val.ok

C23_Construction == [][C23_Step]_vars

\* construction with the tag "openai" has failed: there is the error and
\* no adapter
C23_Witness ==
    /\ call.op = "new"
    /\ call.model_type = "openai"
    /\ call.pc = "failed"
    /\ service = NoService
    /\ result = Some(Err("Unsupported AI model type: openai"))

----------------------------------------------------------------------------
(* Properties of check_availability and of dropped calls *)

\* check_availability has returned
ProbeReturned == call.op = "probe" /\ call.pc = "done"

\* C21: check_availability never returns an error, on either backend.  Its
\* child is `ollama list` on the Ollama backend and the executable with
\* "--help" on the llama.cpp backend; it returns true exactly when the child
\* was spawned and ran to its end, whatever its exit status, and false when
\* the spawn failed.
C21_ProbeNeverErrs ==
    /\ call.op = "probe" =>
          /\ http = None
          /\ child.some
          /\ OnOllama =>
                child.val = [program |-> "ollama", args |-> <<"list">>]
          /\ OnLlamaCpp =>
                child.val = [program |-> service.model.path,
                             args |-> <<"--help">>]
    /\ ProbeReturned =>
          /\ result.val.ok
          /\ result.val.val = reply.val.spawned

\* the executable of the llama.cpp backend ran with "--help" and was killed
\* by a signal: the probe returned true
C21_Witness ==
    /\ ProbeReturned /\ OnLlamaCpp
    /\ reply.val.spawned
    /\ reply.val.status.code = None
    /\ result = Some(Ok(TRUE))


\* C22: when the host drops a call that waits for a child process, the
\* child is killed and reaped: once the call is dropped, no child that it
\* spawned is still running.
C22_NoChildLeftRunning ==
    (call.op = "dropped" /\ call.left.some) => ~BagIn(call.left.val, orphans)

----------------------------------------------------------------------------
(* Properties of the host *)

\* the AI commands whose call of the adapter has not returned
InAdapter == { t \in Commands : tasks[t].pc = "adapter" }

\* C24: the AI commands exclude one another: a command holds the lock of
\* ai_service from before its call of the adapter until the call has
\* returned, so at most one operation of the adapter is in flight, and a
\* command issued while another runs calls the adapter only after the
\* running one has returned.
C24_Step ==
    /\ \A t \in InAdapter : ai_guard = Some(t)
    /\ Cardinality(InAdapter) <= 1
    /\ \A t \in Commands :
          (tasks[t].pc = "start" /\ tasks'[t].pc = "adapter") =>
              /\ InAdapter = {}
              /\ ai_guard = None
              /\ ai_guard' = Some(t)
    /\ \A t \in InAdapter :
          ai_guard' # ai_guard =>
              (tasks'[t].pc = "done" /\ tasks'[t].called)

C24_OneAdapterCallAtATime == [][C24_Step]_vars

\* an AI command awaits the adapter with the lock held while another AI
\* command, issued meanwhile, waits for the lock
C24_Witness ==
    \E t \in Commands, u \in Commands :
        /\ t # u
        /\ tasks[t].pc = "adapter"
        /\ ai_guard = Some(t)
        /\ tasks[u].cmd \in AiCommands
        /\ tasks[u].pc = "start"

\* neither startup nor a command that stores a database is in progress
Quiescent ==
    \A t \in {Startup} \cup Commands :
        tasks[t].cmd \in DbCommands \cup {"initialize_services"} =>
            ~InProgress(t)

\* C25: whenever no init_database, no set_database_path and no startup
\* initialization is in progress, the stored database_path is the path from
\* which the stored database was opened, however the calls interleave.
C25_PathOfStoredDatabase ==
    (Quiescent /\ database.some) =>
        database_path = Some(database.val.path)

\* the step is the return of an AI command that found the slot empty
ReturnsNotInitialized(t) ==
    /\ tasks'[t].pc = "done"
    /\ tasks'[t].result = Err("AI service not initialized")
    /\ tasks'[t].called = FALSE

\* C26: the ai_service slot is written only by startup initialization, and
\* only after it has opened the database; an AI command that finds the slot
\* empty returns the error "AI service not initialized" without calling the
\* adapter; when startup fails the slot stays empty, and no command, of the
\* database or of the AI service, ever fills it.
C26_Step ==
    /\ ai_service.some =>
          /\ database.some
          /\ tasks[Startup].pc \in {"stored_ai_service", "done"}
          /\ tasks[Startup].pc = "done" => tasks[Startup].result.ok
    /\ \A t \in InAdapter : ai_service.some
    /\ ai_service' # ai_service =>
          /\ ai_service = None
          /\ database.some
          /\ tasks[Startup].pc = "stored_database"
          /\ tasks'[Startup].pc = "stored_ai_service"
          /\ \A t \in Commands : tasks'[t] = tasks[t]
    /\ \A t \in Commands :
          (/\ tasks[t].cmd \in AiCommands
           /\ tasks[t].pc = "start"
           /\ tasks'[t] # tasks[t]
           /\ ai_service = None) => ReturnsNotInitialized(t)

C26_OnlyStartupInitializes == [][C26_Step]_vars

\* startup has failed, a command has stored a database since, and an AI
\* command has returned "AI service not initialized"
C26_Witness ==
    /\ tasks[Startup].pc = "done"
    /\ ~tasks[Startup].result.ok
    /\ ai_service = None
    /\ database.some
    /\ \E t \in Commands :
          /\ tasks[t].pc = "done"
          /\ tasks[t].result = Err("AI service not initialized")
          /\ tasks[t].called = FALSE

============================================================================
